---- MODULE Spec2Model ----
(***************************************************************************)
(* The subtitle compositing engine of the repository:                      *)
(*   subtitle_styles/core/movis_layer.py       StyledSubtitleLayer         *)
(*   subtitle_styles/core/json_style_loader.py JSONConfiguredStyle         *)
(*   subtitle_styles/core/base_style.py        BaseSubtitleStyle           *)
(*   subtitle_styles/effects/*.py              TextEffects,                *)
(*                                             WordHighlightEffects        *)
(*                                                                         *)
(* Conventions.                                                            *)
(*  - A Python str is a sequence of one-character strings.                 *)
(*  - A Python dict is a function on the keys that are present; d[k] on a  *)
(*    missing key is a KeyError, d.get(k, default) is Get(d, k, default).  *)
(*  - An Optional[int] is PyNone or Some(i); list indices are 0-based as   *)
(*    in the source.                                                       *)
(*  - Times are counted in half seconds (OneSecond = 2 ticks).             *)
(*  - Intensities and opacities are counted in thousandths.                *)
(*  - A bitmap is described by its shape and by what was drawn on it; a    *)
(*    canvas by its shape and the list of bitmaps blitted onto it.         *)
(*  - A call that raises is a result of kind "raise".                      *)
(***************************************************************************)
EXTENDS Integers, Sequences, FiniteSets, TLC

VARIABLES
    \* fields of StyledSubtitleLayer, set by __init__
    words, style, resolution, position, safe_zones,
    duration, text_position, safe_left, safe_right, safe_width, word_windows,
    \* the last __call__: its argument, its local variables, what it returned
    time, active_window, current_word_idx, canvas, text_img, result,
    \* what the caller kept of an earlier call: its time and its result, and
    \* whether a call at another time was made since
    kept,
    \* the class of the font ImageFont.load_default() returns on this machine
    load_default_class,
    \* the calls of __call__ in progress, one per rendering thread
    threads,
    \* a function of the package applied on its own: its arguments and what
    \* it gave back
    probe

fields == <<words, style, resolution, position, safe_zones,
            duration, text_position, safe_left, safe_right, safe_width, word_windows>>
locals == <<time, active_window, current_word_idx, canvas, text_img, result>>
others == <<load_default_class, threads, probe>>
vars == <<fields, locals, kept, others>>

----------------------------------------------------------------------------
(* Python values *)

PyNone == [none |-> TRUE, val |-> 0]
Some(i) == [none |-> FALSE, val |-> i]

Get(d, k, default) == IF k \in DOMAIN d THEN d[k] ELSE default

Max(a, b) == IF a >= b THEN a ELSE b
Min(a, b) == IF a <= b THEN a ELSE b

\* max() over a non-empty set of integers
SetMax(S) == CHOOSE m \in S : \A x \in S : x <= m

Whitespace == {" "}

upper(s) ==
    [i \in 1..Len(s) |-> CASE s[i] = "a" -> "A" [] s[i] = "b" -> "B" [] OTHER -> s[i]]

lower(s) ==
    [i \in 1..Len(s) |-> CASE s[i] = "A" -> "a" [] s[i] = "B" -> "b" [] OTHER -> s[i]]

\* sep.join(parts)
RECURSIVE join(_, _)
join(sep, parts) ==
    IF Len(parts) = 0 THEN <<>>
    ELSE IF Len(parts) = 1 THEN parts[1]
    ELSE parts[1] \o sep \o join(sep, Tail(parts))

\* s.split(): the maximal runs of non-whitespace characters, in order
RECURSIVE split_from(_, _, _)
split_from(s, i, cur) ==
    IF i > Len(s) THEN (IF cur = <<>> THEN <<>> ELSE <<cur>>)
    ELSE IF s[i] \in Whitespace
         THEN (IF cur = <<>> THEN <<>> ELSE <<cur>>) \o split_from(s, i + 1, <<>>)
         ELSE split_from(s, i + 1, Append(cur, s[i]))

split(s) == split_from(s, 1, <<>>)

----------------------------------------------------------------------------
(* PIL: fonts and text measurement.  The font files present on the machine *)
(* are FontFiles; ImageFont.truetype raises for any other path and every   *)
(* renderer then takes ImageFont.load_default(), whose glyphs have one     *)
(* fixed size whatever font size was asked for.  A glyph of a TrueType     *)
(* font advances 3/5 of the font size and is as tall as the font size; a   *)
(* glyph of the default font is 6 by 11 pixels.                            *)

FontFiles == {"Montserrat-Black.ttf"}

DefaultFont == [kind |-> "default", size |-> 11]

\* font = None: PIL draws and measures with its default font
NoneFont == [kind |-> "None", size |-> 11]

\* try: ImageFont.truetype(font_path, font_size) / except: load_default()
\* (truetype also raises for a font size below 1)
load_font(font_path, font_size) ==
    IF font_path \in FontFiles /\ font_size >= 1
    THEN [kind |-> "truetype", size |-> font_size]
    ELSE DefaultFont

\* What ImageFont.load_default() returns depends on the Pillow installed: a
\* bitmap font of class ImageFont (Pillow before 10.1, or built without
\* FreeType) or a FreeTypeFont.
DefaultFontClasses == {"ImageFont", "FreeTypeFont"}

\* font.getmetrics(): a method of FreeTypeFont only
has_getmetrics(font) ==
    font.kind = "truetype" \/ load_default_class = "FreeTypeFont"

\* font=None makes PIL draw and measure with its default font
advance(font) == IF font.kind = "truetype" THEN (font.size * 3) \div 5 ELSE 6

\* bbox = draw.textbbox((0, 0), text, font=font); bbox[2] - bbox[0]
text_width(text, font) == Len(text) * advance(font)

----------------------------------------------------------------------------
(* Bitmaps.  A bitmap returned by an effect renderer: its shape (h, w),    *)
(* the effect that drew it, the strings drawn (tokens), the 0-based        *)
(* indices of the tokens drawn in the highlighted style (hl), the colour   *)
(* of the background rectangle of each token that got one of its own (bg,  *)
(* a function on those 0-based indices), the font used, the shared         *)
(* background box <<left, right>> (or <<>>), the glow <<radius,            *)
(* intensity>> (or <<>>) and the colours passed in (paint).  exc # "" is   *)
(* an exception raised instead.                                            *)

Bitmap(w, h, effect, tokens, hl, bg, font, box, glow, paint) ==
    [exc |-> "", w |-> w, h |-> h, effect |-> effect, tokens |-> tokens,
     hl |-> hl, bg |-> bg, font |-> font, box |-> box, glow |-> glow,
     paint |-> paint]

Raise(e) ==
    [exc |-> e, w |-> 0, h |-> 0, effect |-> "", tokens |-> <<>>,
     hl |-> {}, bg |-> <<>>, font |-> DefaultFont,
     box |-> <<>>, glow |-> <<>>, paint |-> <<>>]

NoBitmap == Raise("unset")

\* img_pil.resize((new_width, new_height), Image.Resampling.LANCZOS):
\* PIL refuses a size with a side below 1
resize(img, new_width, new_height) ==
    IF new_width < 1 \/ new_height < 1 THEN Raise("ValueError")
    ELSE [img EXCEPT !.w = new_width, !.h = new_height]

\* for i, word in enumerate(words): is_highlighted = (i == highlighted_word_index)
highlighted_tokens(tokens, highlighted_word_index) ==
    {i \in 0..(Len(tokens) - 1) : i = highlighted_word_index}

\* total_width: the sum of the words' widths plus one space between two words
RECURSIVE sum_widths(_, _)
sum_widths(tokens, font) ==
    IF Len(tokens) = 0 THEN 0
    ELSE text_width(tokens[1], font) + sum_widths(Tail(tokens), font)

words_total_width(tokens, font) ==
    sum_widths(tokens, font) + advance(font) * (Len(tokens) - 1)

----------------------------------------------------------------------------
(* subtitle_styles/effects/text_effects.py: TextEffects *)

create_outline_effect(text, font_path, font_size, text_color, outline_color, outline_width, image_size) ==
    Bitmap(image_size[1], image_size[2], "outline", <<text>>, {}, <<>>,
           load_font(font_path, font_size), <<>>, <<>>,
           <<text_color, outline_color, outline_width>>)

create_glow_effect(text, font_path, font_size, text_color, glow_color, glow_radius, glow_intensity, image_size) ==
    Bitmap(image_size[1], image_size[2], "glow", <<text>>, {}, <<>>,
           load_font(font_path, font_size), <<>>,
           <<glow_radius, glow_intensity>>, <<text_color, glow_color>>)

\* A variant of the sine, to try the properties against: no swing
no_swing(q) == 0

\* np.sin(pulse_phase) at a whole number of quarter turns
sin_quarter_turns(q) == CASE q % 4 = 1 -> 1 [] q % 4 = 3 -> -1 [] OTHER -> 0

\* time in half seconds, pulse_frequency in thousandths of a hertz:
\* time * pulse_frequency * 2 * pi is (time * pulse_frequency) / 500 quarter turns
create_animated_glow_pulse(text, font_path, font_size, text_color, glow_color, t, pulse_frequency, min_intensity, max_intensity, image_size) ==
    LET pulse_phase == (t * pulse_frequency) \div 500
        intensity == min_intensity
                     + ((max_intensity - min_intensity)
                        * (sin_quarter_turns(pulse_phase) + 1)) \div 2
        base_radius == 10
        glow_radius == base_radius + (intensity * 10) \div 1000
    IN  create_glow_effect(text, font_path, font_size, text_color, glow_color,
                           glow_radius, intensity, image_size)

create_two_tone_glow_effect(tokens, font_path, font_size, colors, glow, highlighted_word_index, image_size) ==
    LET font0 == load_font(font_path, font_size)
        full_text == join(<<" ">>, tokens)
        total_width == text_width(full_text, font0)
        max_text_width == (image_size[1] * 9) \div 10
        font == IF total_width > max_text_width
                THEN load_font(font_path, (font_size * max_text_width) \div total_width)
                ELSE font0
    IN  Bitmap(image_size[1], image_size[2], "two_tone_glow", tokens,
               highlighted_tokens(tokens, highlighted_word_index), <<>>,
               font, <<>>, glow, colors)

create_text_shadow_glow_effect(tokens, font_path, font_size, colors, shadow, highlighted_word_index, image_size) ==
    Bitmap(image_size[1], image_size[2], "text_shadow_glow", tokens,
           highlighted_tokens(tokens, highlighted_word_index), <<>>,
           load_font(font_path, font_size), <<>>, shadow, colors)

----------------------------------------------------------------------------
(* subtitle_styles/effects/word_highlight_effects.py: WordHighlightEffects *)

\* A rectangle is drawn behind word i when i == highlighted_word_index (in
\* highlight_bg_color) or when normal_bg_color is not None (in that colour).
create_word_background_highlight_effect(tokens, font_path, font_size, text_color, normal_bg_color, highlight_bg_color, highlighted_word_index, background_padding, corner_radius, image_size) ==
    LET drawn == {i \in 0..(Len(tokens) - 1) :
                    i = highlighted_word_index \/ normal_bg_color # "None"}
    IN  Bitmap(image_size[1], image_size[2], "word_background_highlight", tokens,
               highlighted_tokens(tokens, highlighted_word_index),
               [i \in drawn |-> IF i = highlighted_word_index
                                THEN highlight_bg_color ELSE normal_bg_color],
               load_font(font_path, font_size), <<>>, <<>>,
               <<text_color, background_padding, corner_radius>>)

\* One rectangle behind all the words; word i is drawn in active_text_color
\* when i == highlighted_word_index, in inactive_text_color otherwise.
\* ascent, descent = font.getmetrics() raises AttributeError on a font
\* without the method.
create_deep_diver_effect(tokens, font_path, font_size, active_text_color, inactive_text_color, background_color, highlighted_word_index, background_padding, corner_radius, image_size) ==
    LET font == load_font(font_path, font_size)
        total_width == words_total_width(tokens, font)
        bg_width == total_width + background_padding[1] * 2
        bg_x == (image_size[1] - bg_width) \div 2
    IN  IF ~has_getmetrics(font) THEN Raise("AttributeError")
        ELSE
        Bitmap(image_size[1], image_size[2], "deep_diver", tokens,
               highlighted_tokens(tokens, highlighted_word_index), <<>>,
               font, <<bg_x, bg_x + bg_width>>, <<>>,
               <<active_text_color, inactive_text_color, background_color,
                 corner_radius>>)

----------------------------------------------------------------------------
(* subtitle_styles/core/json_style_loader.py: JSONConfiguredStyle.         *)
(* `self` is the style object: [class_name, json_config (whether the       *)
(* attribute exists), config].                                             *)

Has(d, k) == k \in DOMAIN d

EmptyDict == <<>>

\* every renderer passes image_size=(1080, 200)
ImageSize == <<1080, 200>>

\* if typo.get('text_transform') == 'uppercase': text = text.upper()
transform_upper(typo, text) ==
    IF Get(typo, "text_transform", "None") = "uppercase" THEN upper(text) ELSE text

\* 'text' in colors -> colors['text']; 'normal' in colors -> colors['normal'];
\* else (255, 255, 255)
pick_text_color(colors) ==
    IF Has(colors, "text") THEN colors["text"]
    ELSE IF Has(colors, "normal") THEN colors["normal"]
    ELSE "white"

\* the subscripts typo['colors'] and typo['font_family'] that every creator makes
typo_ok(self) ==
    /\ Has(self.config, "typography")
    /\ Has(self.config["typography"], "colors")
    /\ Has(self.config["typography"], "font_family")

_create_outline_text(self, text, font_size, is_highlighted) ==
    IF ~typo_ok(self) THEN Raise("KeyError")
    ELSE
    LET typo == self.config["typography"]
        effects == Get(self.config, "effect_parameters", EmptyDict)
        text1 == transform_upper(typo, text)
        font_size1 == IF is_highlighted
                      THEN Get(typo, "font_size_highlighted", font_size)
                      ELSE font_size
        text_color == pick_text_color(typo["colors"])
        outline_color == Get(typo["colors"], "outline", "black")
    IN  create_outline_effect(text1, typo["font_family"], font_size1, text_color,
                              outline_color, Get(effects, "outline_width", 3),
                              ImageSize)

\* while current_font_size > 20 and not text_fits: load the font, measure the
\* text, and either stop or take 95% of the font size
RECURSIVE shrink_to_fit(_, _, _, _)
shrink_to_fit(font_family, text, max_text_width, st) ==
    IF st.current_font_size > 20 /\ ~st.text_fits
    THEN LET font == load_font(font_family, st.current_font_size)
         IN  shrink_to_fit(font_family, text, max_text_width,
                IF text_width(text, font) <= max_text_width
                THEN [st EXCEPT !.font = font, !.text_fits = TRUE]
                ELSE [st EXCEPT !.font = font,
                                !.current_font_size = (st.current_font_size * 95) \div 100])
    ELSE st

_create_background_text(self, text, font_size, is_highlighted) ==
    IF ~Has(self.config, "typography")
       \/ ~Has(self.config["typography"], "colors")
       \/ ~Has(self.config["typography"]["colors"], "background")
    THEN Raise("KeyError")
    ELSE
    LET typo == self.config["typography"]
        effects == Get(self.config, "effect_parameters", EmptyDict)
        text1 == transform_upper(typo, text)
        font_size1 == IF is_highlighted
                      THEN Get(typo, "font_size_highlighted", font_size)
                      ELSE font_size
        bg_color == IF is_highlighted
                    THEN <<Get(typo["colors"], "background_highlighted",
                               typo["colors"]["background"]),
                           Get(effects, "highlight_brightness_boost", 0)>>
                    ELSE <<typo["colors"]["background"], 0>>
        img_width == 1080
        estimated_height == (font_size1 * 5) \div 2 + 200
        img_height == Max(600, estimated_height)
        safe_margin == 50
        padding == Get(effects, "background_padding", [x |-> 120, y |-> 50])
        pad_x == padding["x"]
        has_outline == Get(effects, "text_has_outline", FALSE)
        outline_width == IF has_outline THEN Get(effects, "outline_width", 3) ELSE 0
        max_background_width == img_width - (safe_margin * 2)
        max_text_width == max_background_width - (pad_x * 2) - (outline_width * 4)
        \* typo['font_family'] is read inside the try of the loop
        st == shrink_to_fit(Get(typo, "font_family", "None"), text1, max_text_width,
                            [current_font_size |-> font_size1,
                             font |-> NoneFont,
                             text_fits |-> FALSE])
        current_font_size == st.current_font_size
        original_font_size == Get(typo, "font_size", 140)
        line_width == text_width(text1, st.font)
                      + (IF has_outline THEN outline_width * 4 ELSE 0)
        max_width == Max(0, line_width)
        padding2 == Get(effects, "background_padding", [x |-> 20, y |-> 10])
        \* int(pad_x * scale_factor), scale_factor = current / original
        scaled_pad_x == (padding2["x"] * current_font_size) \div original_font_size
        bg_width == max_width + (scaled_pad_x * 2)
        bg_x == (img_width - bg_width) \div 2
    IN  Bitmap(img_width, img_height, "background_box", <<text1>>, {}, <<>>,
               st.font, <<bg_x, bg_x + bg_width>>, <<>>,
               <<bg_color, pick_text_color(typo["colors"]), current_font_size,
                 st.text_fits, max_text_width>>)

\* base_intensity and the pulse bounds are products of thousandths
_create_glow_text(self, text, font_size, t, is_highlighted) ==
    IF ~typo_ok(self) \/ ~Has(self.config["typography"]["colors"], "glow")
    THEN Raise("KeyError")
    ELSE
    LET typo == self.config["typography"]
        effects == Get(self.config, "effect_parameters", EmptyDict)
        text1 == transform_upper(typo, text)
        font_size1 == IF is_highlighted
                      THEN Get(typo, "font_size_highlighted", font_size)
                      ELSE font_size
        base_intensity == IF is_highlighted
                          THEN Get(effects, "glow_intensity_highlighted", 1200)
                          ELSE Get(effects, "glow_intensity", 800)
        glow_color == IF is_highlighted
                      THEN <<Get(typo["colors"], "glow_highlighted", typo["colors"]["glow"]),
                             Get(effects, "highlight_color_multiplier", 1000)>>
                      ELSE <<typo["colors"]["glow"], 1000>>
        text_color == pick_text_color(typo["colors"])
        pulse_config == Get(effects, "pulse", EmptyDict)
    IN  IF Get(pulse_config, "enabled", FALSE) /\ ~is_highlighted
        THEN create_animated_glow_pulse(
                 text1, typo["font_family"], font_size1, text_color, glow_color, t,
                 Get(pulse_config, "frequency", 500),
                 (Get(pulse_config, "min_intensity", 300) * base_intensity) \div 1000,
                 (Get(pulse_config, "max_intensity", 1000) * base_intensity) \div 1000,
                 ImageSize)
        ELSE create_glow_effect(text1, typo["font_family"], font_size1, text_color,
                                glow_color, Get(effects, "glow_radius", 15),
                                base_intensity, ImageSize)

\* highlighted_word_index = word_index if word_index >= 0 else -1:
\* the comparison raises TypeError when word_index is None
_create_dual_glow_text(self, text, font_size, t, is_highlighted, word_index) ==
    IF ~typo_ok(self)
       \/ ~({"text_normal", "text_highlighted", "glow_normal", "glow_highlighted"}
            \subseteq DOMAIN self.config["typography"]["colors"])
    THEN Raise("KeyError")
    ELSE IF word_index.none THEN Raise("TypeError")
    ELSE
    LET typo == self.config["typography"]
        effects == Get(self.config, "effect_parameters", EmptyDict)
        text1 == transform_upper(typo, text)
        tokens == split(text1)
        colors == <<typo["colors"]["text_normal"], typo["colors"]["text_highlighted"],
                    typo["colors"]["glow_normal"], typo["colors"]["glow_highlighted"]>>
        glow == <<Get(effects, "glow_radius_normal", 12),
                  Get(effects, "glow_radius_highlighted", 15),
                  Get(effects, "glow_intensity_normal", 400),
                  Get(effects, "glow_intensity_highlighted", 600)>>
        highlighted_word_index == IF word_index.val >= 0 THEN word_index.val ELSE -1
    IN  create_two_tone_glow_effect(tokens, typo["font_family"], font_size, colors,
                                    glow, highlighted_word_index, ImageSize)

\* highlighted_word_index=word_index if word_index >= 0 else -1: TypeError on None
_create_text_shadow_text(self, text, font_size, t, is_highlighted, word_index) ==
    IF ~typo_ok(self)
       \/ ~({"text_normal", "text_highlighted"}
            \subseteq DOMAIN self.config["typography"]["colors"])
    THEN Raise("KeyError")
    ELSE IF word_index.none THEN Raise("TypeError")
    ELSE
    LET typo == self.config["typography"]
        shadow_config == Get(self.config, "text_shadow", EmptyDict)
        text1 == transform_upper(typo, text)
        tokens == split(text1)
        colors == <<typo["colors"]["text_normal"], typo["colors"]["text_highlighted"]>>
        normal_opacity_1 == Get(shadow_config, "normalOpacity", 800)
        highlighted_opacity_1 ==
            Get(shadow_config, "highlightedOpacity", (normal_opacity_1 * 12) \div 10)
        shadow == <<Get(shadow_config, "shadowBlur", 18), normal_opacity_1,
                    highlighted_opacity_1>>
    IN  create_text_shadow_glow_effect(
            tokens, typo["font_family"], font_size, colors, shadow,
            IF word_index.val >= 0 THEN word_index.val ELSE -1, ImageSize)

\* typo['font_family'] sits inside the try: a missing key falls back to the
\* default font like a missing file
_create_simple_text(self, text, font_size, is_highlighted) ==
    IF ~Has(self.config, "typography") THEN Raise("KeyError")
    ELSE
    LET typo == self.config["typography"]
        text1 == transform_upper(typo, text)
        font_size1 == IF is_highlighted
                      THEN Get(typo, "font_size_highlighted", font_size)
                      ELSE font_size
        color == IF Has(typo, "colors") THEN pick_text_color(typo["colors"]) ELSE "white"
    IN  Bitmap(1080, 200, "simple_text", <<text1>>, {}, <<>>,
               load_font(Get(typo, "font_family", "None"), font_size1),
               <<>>, <<>>, <<color>>)

\* create_styled_text(text, font_size, time=0, is_highlighted=False, word_index=-1)
create_styled_text(self, text, font_size, t, is_highlighted, word_index) ==
    LET effect_type == Get(self.config, "effect_type", "simple")
    IN  CASE effect_type = "outline" ->
               _create_outline_text(self, text, font_size, is_highlighted)
          [] effect_type = "background" ->
               _create_background_text(self, text, font_size, is_highlighted)
          [] effect_type = "glow" ->
               _create_glow_text(self, text, font_size, t, is_highlighted)
          [] effect_type = "dual_glow" ->
               _create_dual_glow_text(self, text, font_size, t, is_highlighted, word_index)
          [] effect_type = "text_shadow" ->
               _create_text_shadow_text(self, text, font_size, t, is_highlighted, word_index)
          [] OTHER ->
               _create_simple_text(self, text, font_size, is_highlighted)

----------------------------------------------------------------------------
(* subtitle_styles/styles/*.py: the class-based styles *)

\* SimpleCaptionStyle.create_text_with_outline
create_text_with_outline(self, text, font_size, is_highlighted) ==
    LET config == self.config["typography"]
        font_size1 == IF is_highlighted
                      THEN Get(config, "font_size_highlighted", (font_size * 11) \div 10)
                      ELSE font_size
        text1 == transform_upper(config, text)
    IN  create_outline_effect(text1, config["font_family"], font_size1, config["color"],
                              config["outline_color"], config["outline_width"], ImageSize)

\* BackgroundCaptionStyle.create_text_with_background
create_text_with_background(self, text, font_size, is_highlighted) ==
    LET typo_config == self.config["typography"]
        bg_config == self.config["background"]
        text1 == transform_upper(typo_config, text)
        font_size1 == IF is_highlighted
                      THEN Get(typo_config, "font_size_highlighted", font_size)
                      ELSE font_size
        bg_color == IF is_highlighted THEN <<bg_config["color"], 30>>
                    ELSE <<bg_config["color"], 0>>
        img_width == 1080
        img_height == 300
        font == load_font(typo_config["font_family"], font_size1)
        max_width == Max(0, text_width(text1, font))
        bg_width == max_width + (bg_config["padding"]["x"] * 2)
        bg_x == (img_width - bg_width) \div 2
    IN  Bitmap(img_width, img_height, "background_box", <<text1>>, {}, <<>>, font,
               <<bg_x, bg_x + bg_width>>, <<>>, <<bg_color, typo_config["color"]>>)

\* GlowCaptionStyle.create_glowing_text
create_glowing_text(self, text, font_size, t, is_highlighted) ==
    LET typo_config == self.config["typography"]
        glow_config == self.config["glow"]
        text1 == transform_upper(typo_config, text)
        font_size1 == IF is_highlighted
                      THEN Get(typo_config, "font_size_highlighted", font_size)
                      ELSE font_size
        base_intensity == IF is_highlighted
                          THEN Min(1000, (glow_config["intensity"] * 13) \div 10)
                          ELSE glow_config["intensity"]
        glow_color == IF is_highlighted THEN <<glow_config["color"], 1200>>
                      ELSE <<glow_config["color"], 1000>>
        pulse_config == glow_config["pulse"]
    IN  IF pulse_config["enabled"] /\ ~is_highlighted
        THEN create_animated_glow_pulse(
                 text1, typo_config["font_family"], font_size1, typo_config["color"],
                 glow_color, t, pulse_config["frequency"],
                 (pulse_config["min_intensity"] * base_intensity) \div 1000,
                 (pulse_config["max_intensity"] * base_intensity) \div 1000,
                 ImageSize)
        ELSE create_glow_effect(text1, typo_config["font_family"], font_size1,
                                typo_config["color"], glow_color,
                                glow_config["radius"], base_intensity, ImageSize)

----------------------------------------------------------------------------
(* subtitle_styles/core/base_style.py: BaseSubtitleStyle *)

calculate_safe_position(res, position_type, zones) ==
    LET width == res[1]
        height == res[2]
        safe_top == IF zones THEN 220 ELSE 50
        safe_bottom == IF zones THEN 450 ELSE 50
        x == width \div 2
        y == CASE position_type = "top" -> safe_top + 50
               [] position_type = "center" -> height \div 2
               [] position_type = "bottom" -> height - safe_bottom - 50
               [] OTHER -> height - safe_bottom - 50
    IN  <<x, y>>

----------------------------------------------------------------------------
(* subtitle_styles/core/movis_layer.py: StyledSubtitleLayer.__init__ *)

\* one second, in the unit of time of the model
OneSecond == 2

\* A variant of the duration, to try the properties against: the second is
\* added for an empty list too
one_second_more(ws) ==
    (IF Len(ws) > 0 THEN SetMax({ws[i].end : i \in 1..Len(ws)}) ELSE 0) + OneSecond

\* self.duration = max(w['end'] for w in words) + 1.0 if words else 0.0
layer_duration(ws) ==
    IF Len(ws) > 0 THEN SetMax({ws[i].end : i \in 1..Len(ws)}) + OneSecond ELSE 0

\* A variant of the slice, to try the properties against: one word more
slice_one_more(ws, i, j) == SubSeq(ws, i + 1, Min(j + 1, Len(ws)))

\* self.words[i:i + words_per_window] for 0-based i
slice(ws, i, j) == SubSeq(ws, i + 1, Min(j, Len(ws)))

\* for i in range(0, len(self.words), words_per_window): one window per slice
_create_word_windows(ws, words_per_window) ==
    LET starts == {i \in 0..(Len(ws) - 1) : i % words_per_window = 0}
        window(i) ==
            LET window_words == slice(ws, i, i + words_per_window)
            IN  [words |-> window_words,
                 start |-> window_words[1].start,
                 end |-> window_words[Len(window_words)].end,
                 text |-> join(<<" ">>, [k \in 1..Len(window_words) |->
                                          window_words[k].word])]
    IN  [n \in 1..Cardinality(starts) |-> window((n - 1) * words_per_window)]

\* the object __init__ leaves behind
StyledSubtitleLayer(ws, st, res, pos, zones) ==
    LET left == IF zones THEN 50 ELSE 30
        right == IF zones THEN res[1] - 50 ELSE res[1] - 30
    IN  [words |-> ws, style |-> st, resolution |-> res, position |-> pos,
         safe_zones |-> zones,
         duration |-> layer_duration(ws),
         text_position |-> calculate_safe_position(res, pos, zones),
         safe_left |-> left, safe_right |-> right, safe_width |-> right - left,
         word_windows |-> _create_word_windows(ws, 3)]

----------------------------------------------------------------------------
(* Canvases and what __call__ gives back.  A canvas is its shape and the   *)
(* list of blits made onto it: the columns [x, x_end) and rows [y, y_end)  *)
(* written, the bitmap as handed to the compositor (given) and the bitmap  *)
(* as written after cropping (drawn).  A canvas without blits is all zero. *)

\* A variant of the allocation, to try the properties against: the canvas of
\* the frame returned last is taken again.
reused_canvas(res) ==
    IF result.kind = "frame" THEN result.canvas
    ELSE [h |-> res[2], w |-> res[1], layers |-> <<>>]

\* Another variant: one canvas for all the threads, the one a thread has
\* drawn on when there is one.
canvas_of_a_thread(res) ==
    IF \E th \in DOMAIN threads : threads[th].result.kind = "frame"
    THEN threads[CHOOSE th \in DOMAIN threads :
                     threads[th].result.kind = "frame"].result.canvas
    ELSE [h |-> res[2], w |-> res[1], layers |-> <<>>]

\* np.zeros((*self.resolution[::-1], 4), dtype=np.uint8)
np_zeros(res) == [h |-> res[2], w |-> res[1], layers |-> <<>>]

NoCanvas == [h |-> 0, w |-> 0, layers |-> <<>>]

ReturnNone == [kind |-> "None", exc |-> "", canvas |-> NoCanvas]
Frame(c) == [kind |-> "frame", exc |-> "", canvas |-> c]
Raises(e) == [kind |-> "raise", exc |-> e, canvas |-> NoCanvas]

\* a[:n]: the length of the slice of a sequence of length len
slice_len(len, n) == IF n >= 0 THEN Min(n, len) ELSE Max(0, len + n)

\* text_img[:rows, :cols]
crop(img, rows, cols) ==
    [img EXCEPT !.h = slice_len(img.h, rows), !.w = slice_len(img.w, cols)]

\* numpy accepts canvas[y:y_end, x:x_end] = value when, on each axis, the
\* value is as long as the region or has length 1
broadcasts(img, region_h, region_w) ==
    /\ img.h = region_h \/ img.h = 1
    /\ img.w = region_w \/ img.w = 1

_composite_center(self, canvas0, text_img0) ==
    IF text_img0.exc # "" THEN Raises(text_img0.exc)
    ELSE
    LET img1 == IF text_img0.h > canvas0.h \/ text_img0.w > canvas0.w
                THEN crop(text_img0, canvas0.h, canvas0.w)
                ELSE text_img0
        text_h == img1.h
        text_w == img1.w
        canvas_h == canvas0.h
        canvas_w == canvas0.w
        x0 == self.text_position[1] - text_w \div 2
        y0 == self.text_position[2] - text_h \div 2
        x == Max(self.safe_left, Min(x0, self.safe_right - text_w))
        y == Max(0, Min(y0, canvas_h - text_h))
        x_end == Min(x + text_w, canvas_w)
        y_end == Min(y + text_h, canvas_h)
        text_w_actual == x_end - x
        text_h_actual == y_end - y
        img2 == IF text_w_actual < text_w \/ text_h_actual < text_h
                THEN crop(img1, text_h_actual, text_w_actual)
                ELSE img1
        region_h == Max(0, Min(y_end, canvas_h) - Min(y, canvas_h))
        region_w == Max(0, Min(x_end, canvas_w) - Min(x, canvas_w))
    IN  IF broadcasts(img2, region_h, region_w)
        THEN Frame([canvas0 EXCEPT !.layers =
                       Append(@, [x |-> x, y |-> y, x_end |-> x_end, y_end |-> y_end,
                                  given |-> text_img0, drawn |-> img2])])
        ELSE Raises("ValueError")

----------------------------------------------------------------------------
(* The downscale step of the renderers *)

\* int(n * scale_factor) with scale_factor = safe_width / w, in floats
int_scaled(n, safe_w, w) == (n * safe_w) \div w

\* the product w * (safe_width / w * 0.95) falls just below 969 in floats
float_loss(n, safe_w, w) == IF <<n, safe_w, w>> = <<1080, 1020, 1080>> THEN 1 ELSE 0

\* int(n * scale_factor) with scale_factor = safe_width / w * 0.95, in floats
int_scaled_95(n, safe_w, w) ==
    (n * safe_w * 95) \div (w * 100) - float_loss(n, safe_w, w)

\* if text_img.shape[1] > self.safe_width: resize by safe_width / width
downscale(self, img) ==
    IF img.exc = "" /\ img.w > self.safe_width
    THEN resize(img, int_scaled(img.w, self.safe_width, img.w),
                     int_scaled(img.h, self.safe_width, img.w))
    ELSE img

\* the same with scale_factor *= 0.95
downscale_95(self, img) ==
    IF img.exc = "" /\ img.w > self.safe_width
    THEN resize(img, int_scaled_95(img.w, self.safe_width, img.w),
                     int_scaled_95(img.h, self.safe_width, img.w))
    ELSE img

----------------------------------------------------------------------------
(* subtitle_styles/core/movis_layer.py: the renderers.  Each gives back    *)
(* what the call returns; a bitmap that could not be made is the exception *)
(* that propagates.                                                        *)

\* hasattr(self.style, 'create_styled_text'): a method of JSONConfiguredStyle only
has_create_styled_text(st) == st.json_config

\* self.style.config['typography']['font_size'] can be subscripted
has_font_size(st) ==
    Has(st.config, "typography") /\ Has(st.config["typography"], "font_size")

\* 'Simple' in style_name, 'Background' in style_name, 'Glow' in style_name
name_contains(style_name, part) ==
    \/ style_name = "SimpleCaptionStyle" /\ part = "Simple"
    \/ style_name = "BackgroundCaptionStyle" /\ part = "Background"
    \/ style_name = "GlowCaptionStyle" /\ part = "Glow"

\* the method a class-based renderer asks of the style exists
has_method(st, method) ==
    \/ st.class_name = "SimpleCaptionStyle" /\ method = "create_text_with_outline"
    \/ st.class_name = "BackgroundCaptionStyle" /\ method = "create_text_with_background"
    \/ st.class_name = "GlowCaptionStyle" /\ method = "create_glowing_text"

_render_simple_style(self, canvas0, window, highlight_idx, t) ==
    LET text == window.text
        is_highlighted == ~highlight_idx.none
        st == self.style
        img == IF ~has_font_size(st) THEN Raise("KeyError")
               ELSE IF has_create_styled_text(st)
               THEN create_styled_text(st, text, st.config["typography"]["font_size"],
                                       t, is_highlighted, Some(-1))
               ELSE IF has_method(st, "create_text_with_outline")
               THEN create_text_with_outline(st, text,
                        st.config["typography"]["font_size"], is_highlighted)
               ELSE Raise("AttributeError")
    IN  _composite_center(self, canvas0, downscale(self, img))

_render_background_style(self, canvas0, window, highlight_idx, t) ==
    LET text == window.text
        is_highlighted == ~highlight_idx.none
        st == self.style
        img == IF ~has_font_size(st) THEN Raise("KeyError")
               ELSE IF has_create_styled_text(st)
               THEN create_styled_text(st, text, st.config["typography"]["font_size"],
                                       t, is_highlighted, Some(-1))
               ELSE IF has_method(st, "create_text_with_background")
               THEN create_text_with_background(st, text,
                        st.config["typography"]["font_size"], is_highlighted)
               ELSE Raise("AttributeError")
    IN  _composite_center(self, canvas0, downscale(self, img))

\* A variant of the glow renderer, to try the properties against: the text
\* is never taken as highlighted
render_glow_unhighlighted(self, canvas0, window, highlight_idx, t) ==
    LET text == window.text
        st == self.style
        img == IF ~has_font_size(st) THEN Raise("KeyError")
               ELSE IF has_create_styled_text(st)
               THEN create_styled_text(st, text, st.config["typography"]["font_size"],
                                       t, FALSE, Some(-1))
               ELSE IF has_method(st, "create_glowing_text")
               THEN create_glowing_text(st, text,
                        st.config["typography"]["font_size"], t, FALSE)
               ELSE Raise("AttributeError")
    IN  _composite_center(self, canvas0, downscale(self, img))

_render_glow_style(self, canvas0, window, highlight_idx, t) ==
    LET text == window.text
        is_highlighted == ~highlight_idx.none
        st == self.style
        img == IF ~has_font_size(st) THEN Raise("KeyError")
               ELSE IF has_create_styled_text(st)
               THEN create_styled_text(st, text, st.config["typography"]["font_size"],
                                       t, is_highlighted, Some(-1))
               ELSE IF has_method(st, "create_glowing_text")
               THEN create_glowing_text(st, text,
                        st.config["typography"]["font_size"], t, is_highlighted)
               ELSE Raise("AttributeError")
    IN  _composite_center(self, canvas0, downscale(self, img))

\* highlight_idx goes to create_styled_text as word_index, None included
_render_dual_glow_style(self, canvas0, window, highlight_idx, t) ==
    LET text == window.text
        st == self.style
        img == IF ~has_create_styled_text(st) THEN Raise("AttributeError")
               ELSE IF ~has_font_size(st) THEN Raise("KeyError")
               ELSE create_styled_text(st, text, st.config["typography"]["font_size"],
                                       t, FALSE, highlight_idx)
    IN  _composite_center(self, canvas0, downscale_95(self, img))

_render_word_highlight_style(self, canvas0, window, highlight_idx, t) ==
    LET text == window.text
        words0 == split(text)
        st == self.style
        img ==
            IF ~Has(st.config, "typography") THEN Raise("KeyError")
            ELSE
            LET typo == st.config["typography"]
                effects == Get(st.config, "effect_parameters", EmptyDict)
                words1 == IF Get(typo, "text_transform", "None") = "uppercase"
                          THEN [i \in 1..Len(words0) |-> upper(words0[i])]
                          ELSE words0
            IN  IF ~Has(typo, "colors") \/ ~Has(typo["colors"], "text")
                   \/ ~Has(typo, "font_family") \/ ~Has(typo, "font_size")
                THEN Raise("KeyError")
                ELSE
                LET text_color == typo["colors"]["text"]
                    normal_bg_color == Get(typo["colors"], "background", "None")
                    highlight_bg_color ==
                        Get(typo["colors"], "background_highlighted",
                            Get(typo["colors"], "background", "purple"))
                    bg_padding == Get(effects, "background_padding", [x |-> 20, y |-> 10])
                    padding_tuple == <<Get(bg_padding, "x", 20), Get(bg_padding, "y", 10)>>
                    corner_radius == Get(effects, "rounded_corners", 15)
                IN  create_word_background_highlight_effect(
                        words1, typo["font_family"], typo["font_size"], text_color,
                        normal_bg_color, highlight_bg_color,
                        IF ~highlight_idx.none THEN highlight_idx.val ELSE -1,
                        padding_tuple, corner_radius, ImageSize)
    IN  _composite_center(self, canvas0, downscale_95(self, img))

_render_text_shadow_style(self, canvas0, window, highlight_idx, t) ==
    LET text == window.text
        st == self.style
        img == IF ~has_create_styled_text(st) THEN Raise("AttributeError")
               ELSE IF ~has_font_size(st) THEN Raise("KeyError")
               ELSE create_styled_text(st, text, st.config["typography"]["font_size"],
                                       t, FALSE, highlight_idx)
    IN  _composite_center(self, canvas0, downscale(self, img))

\* the bitmap goes to the compositor as the effect made it
_render_deep_diver_style(self, canvas0, window, highlight_idx, t) ==
    LET words0 == [i \in 1..Len(window.words) |-> window.words[i].word]
        st == self.style
        img ==
            IF ~Has(st.config, "typography") THEN Raise("KeyError")
            ELSE
            LET typo == st.config["typography"]
                effects == Get(st.config, "effect_parameters", EmptyDict)
                transform == Get(typo, "text_transform", "None")
                words1 == CASE transform = "uppercase" ->
                                 [i \in 1..Len(words0) |-> upper(words0[i])]
                            [] transform = "lowercase" ->
                                 [i \in 1..Len(words0) |-> lower(words0[i])]
                            [] OTHER -> words0
            IN  IF ~Has(typo, "colors") \/ ~Has(typo, "font_family")
                   \/ ~Has(typo, "font_size")
                THEN Raise("KeyError")
                ELSE
                LET active_text_color == Get(typo["colors"], "active_text", "black")
                    inactive_text_color == Get(typo["colors"], "inactive_text", "gray")
                    background_color == Get(typo["colors"], "background", "silver")
                    bg_padding == Get(effects, "background_padding", [x |-> 25, y |-> 10])
                    padding_tuple == <<Get(bg_padding, "x", 25), Get(bg_padding, "y", 10)>>
                    corner_radius == Get(effects, "corner_radius", 20)
                IN  create_deep_diver_effect(
                        words1, typo["font_family"], typo["font_size"],
                        active_text_color, inactive_text_color, background_color,
                        IF ~highlight_idx.none THEN highlight_idx.val ELSE -1,
                        padding_tuple, corner_radius, ImageSize)
    IN  _composite_center(self, canvas0, img)

----------------------------------------------------------------------------
(* subtitle_styles/core/movis_layer.py: StyledSubtitleLayer.__call__ *)

\* min() over a non-empty set of integers
SetMin(S) == CHOOSE m \in S : \A x \in S : m <= x

\* A variant of the membership test, to try the properties against: one tick
\* of margin on each side
contains_with_margin(interval, t) == interval.start - 1 <= t /\ t <= interval.end + 1

\* window['start'] <= time <= window['end'], word['start'] <= time <= word['end']
contains(interval, t) == interval.start <= t /\ t <= interval.end

\* Variants of the two scans, to try the properties against: a window scan
\* that does not look at window['end'], a word scan with strict comparisons,
\* and a word scan that keeps the highlight of the call before while it has one.
window_started(self, t) ==
    LET hits == {i \in 1..Len(self.word_windows) : self.word_windows[i].start <= t}
    IN  IF hits = {} THEN PyNone ELSE Some(SetMin(hits) - 1)

word_strictly_inside(window, t) ==
    LET hits == {i \in 1..Len(window.words) :
                    window.words[i].start < t /\ t < window.words[i].end}
    IN  IF hits = {} THEN PyNone ELSE Some(SetMin(hits) - 1)

word_of_last_call(window, t) ==
    LET hits == {i \in 1..Len(window.words) : contains(window.words[i], t)}
    IN  IF ~current_word_idx.none /\ current_word_idx.val < Len(window.words)
        THEN current_word_idx
        ELSE IF hits = {} THEN PyNone ELSE Some(SetMin(hits) - 1)

\* for window in self.word_windows: the first window that contains time;
\* the 0-based index of that window, or None
find_active_window(self, t) ==
    LET hits == {i \in 1..Len(self.word_windows) : contains(self.word_windows[i], t)}
    IN  IF hits = {} THEN PyNone ELSE Some(SetMin(hits) - 1)

\* for i, word in enumerate(active_window['words']): the first word that
\* contains time, or None
find_current_word(window, t) ==
    LET hits == {i \in 1..Len(window.words) : contains(window.words[i], t)}
    IN  IF hits = {} THEN PyNone ELSE Some(SetMin(hits) - 1)

\* A variant of the dispatch, to try the properties against: every style
\* goes to the simple renderer
always_simple(self, canvas0, window, idx, t) ==
    _render_simple_style(self, canvas0, window, idx, t)

\* the if/elif chain on effect_type, or on the class name
dispatch(self, canvas0, window, idx, t) ==
    IF self.style.json_config
    THEN LET effect_type == Get(self.style.config, "effect_type", "simple")
         IN  CASE effect_type = "outline" ->
                    _render_simple_style(self, canvas0, window, idx, t)
               [] effect_type = "background" ->
                    _render_background_style(self, canvas0, window, idx, t)
               [] effect_type = "glow" ->
                    _render_glow_style(self, canvas0, window, idx, t)
               [] effect_type = "dual_glow" ->
                    _render_dual_glow_style(self, canvas0, window, idx, t)
               [] effect_type = "text_shadow" ->
                    _render_text_shadow_style(self, canvas0, window, idx, t)
               [] effect_type = "word_highlight" ->
                    _render_word_highlight_style(self, canvas0, window, idx, t)
               [] effect_type = "deep_diver" ->
                    _render_deep_diver_style(self, canvas0, window, idx, t)
               [] OTHER ->
                    _render_simple_style(self, canvas0, window, idx, t)
    ELSE LET style_name == self.style.class_name
         IN  CASE name_contains(style_name, "Simple") ->
                    _render_simple_style(self, canvas0, window, idx, t)
               [] name_contains(style_name, "Background") ->
                    _render_background_style(self, canvas0, window, idx, t)
               [] name_contains(style_name, "Glow") ->
                    _render_glow_style(self, canvas0, window, idx, t)
               [] OTHER ->
                    _render_simple_style(self, canvas0, window, idx, t)

\* the local variables of one call and what it returns
__call__(self, t) ==
    LET none == [active_window |-> PyNone, current_word_idx |-> PyNone,
                 canvas |-> NoCanvas, result |-> ReturnNone]
        found == find_active_window(self, t)
    IN  IF t < 0 \/ t > self.duration THEN none
        ELSE IF found.none THEN none
        ELSE LET window == self.word_windows[found.val + 1]
                 canvas0 == np_zeros(self.resolution)
                 idx == find_current_word(window, t)
             IN  [active_window |-> found, current_word_idx |-> idx,
                  canvas |-> canvas0,
                  result |-> dispatch(self, canvas0, window, idx, t)]

----------------------------------------------------------------------------
(* The styles a layer is built with: JSON configurations of every effect   *)
(* type the dispatch knows, one it does not know, one without effect_type, *)
(* and the three class-based styles with their default configurations.     *)

JSONConfiguredStyle(config) ==
    [class_name |-> "JSONConfiguredStyle", json_config |-> TRUE, config |-> config]

Typography(size, size_highlighted, colors) ==
    [font_family |-> "Montserrat-Black.ttf", font_size |-> size,
     font_size_highlighted |-> size_highlighted,
     text_transform |-> "uppercase", colors |-> colors]

OutlineStyle ==
    JSONConfiguredStyle(
        [effect_type |-> "outline",
         typography |-> Typography(72, 80, [text |-> "white", outline |-> "black"]),
         effect_parameters |-> [outline_width |-> 4]])

BackgroundStyle ==
    JSONConfiguredStyle(
        [effect_type |-> "background",
         typography |-> Typography(140, 160,
                            [text |-> "white", background |-> "cyan"]),
         effect_parameters |-> [background_padding |-> [x |-> 120, y |-> 50],
                                rounded_corners |-> 20]])

GlowStyle ==
    JSONConfiguredStyle(
        [effect_type |-> "glow",
         typography |-> Typography(68, 76, [text |-> "white", glow |-> "pink"]),
         effect_parameters |-> [glow_radius |-> 20, glow_intensity |-> 900,
                                pulse |-> [enabled |-> TRUE, frequency |-> 500,
                                           min_intensity |-> 600,
                                           max_intensity |-> 1000]]])

DualGlowStyle ==
    JSONConfiguredStyle(
        [effect_type |-> "dual_glow",
         typography |-> Typography(80, 80,
                            [text_normal |-> "white", text_highlighted |-> "red",
                             glow_normal |-> "white", glow_highlighted |-> "red"]),
         effect_parameters |-> [glow_radius_normal |-> 12]])

TextShadowStyle ==
    JSONConfiguredStyle(
        [effect_type |-> "text_shadow",
         typography |-> Typography(80, 80,
                            [text_normal |-> "white", text_highlighted |-> "green"]),
         text_shadow |-> [shadowBlur |-> 18, normalOpacity |-> 800]])

\* the configuration of test_word_highlight_audio.py
WordHighlightStyle ==
    JSONConfiguredStyle(
        [effect_type |-> "word_highlight",
         typography |-> [font_family |-> "Montserrat-Black.ttf", font_size |-> 80,
                         font_size_highlighted |-> 80,
                         text_transform |-> "lowercase",
                         colors |-> [text |-> "white",
                                     background_highlighted |-> "purple"]],
         effect_parameters |-> [background_padding |-> [x |-> 25, y |-> 15],
                                rounded_corners |-> 20,
                                highlight_brightness_boost |-> 0],
         layout |-> [words_per_window |-> 3]])

\* a word_highlight style that also names a colour for 'background'
WordHighlightBackgroundStyle ==
    JSONConfiguredStyle(
        [effect_type |-> "word_highlight",
         typography |-> Typography(72, 80,
                            [text |-> "white", background |-> "gray",
                             background_highlighted |-> "purple"]),
         effect_parameters |-> [background_padding |-> [x |-> 20, y |-> 10]]])

DeepDiverStyle ==
    JSONConfiguredStyle(
        [effect_type |-> "deep_diver",
         typography |-> [font_family |-> "Montserrat-Black.ttf", font_size |-> 80,
                         text_transform |-> "lowercase",
                         colors |-> [active_text |-> "black",
                                     inactive_text |-> "gray",
                                     background |-> "silver"]],
         effect_parameters |-> [background_padding |-> [x |-> 25, y |-> 10]]])

SparkleStyle ==
    JSONConfiguredStyle(
        [effect_type |-> "sparkle",
         typography |-> Typography(72, 80, [normal |-> "yellow"])])

NoEffectTypeStyle ==
    JSONConfiguredStyle([typography |-> Typography(72, 80, [text |-> "white"])])

SimpleStyle ==
    JSONConfiguredStyle(
        [effect_type |-> "simple",
         typography |-> Typography(72, 80, [text |-> "white"])])

\* SimpleCaptionStyle().config
SimpleCaptionStyle ==
    [class_name |-> "SimpleCaptionStyle", json_config |-> FALSE,
     config |-> [typography |-> [font_family |-> "Arial Black", font_size |-> 72,
                                 font_size_highlighted |-> 80, color |-> "white",
                                 outline_color |-> "black", outline_width |-> 4,
                                 text_transform |-> "uppercase"]]]

\* BackgroundCaptionStyle().config
BackgroundCaptionStyle ==
    [class_name |-> "BackgroundCaptionStyle", json_config |-> FALSE,
     config |-> [typography |-> [font_family |-> "Arial Black", font_size |-> 56,
                                 font_size_highlighted |-> 60, color |-> "white",
                                 text_transform |-> "uppercase"],
                 background |-> [color |-> "cyan", padding |-> [x |-> 40, y |-> 20],
                                 rounded_corners |-> 0, opacity |-> 1000]]]

\* GlowCaptionStyle().config
GlowCaptionStyle ==
    [class_name |-> "GlowCaptionStyle", json_config |-> FALSE,
     config |-> [typography |-> [font_family |-> "Arial Black", font_size |-> 68,
                                 font_size_highlighted |-> 76, color |-> "white",
                                 text_transform |-> "uppercase"],
                 glow |-> [color |-> "pink", radius |-> 20, intensity |-> 900,
                           pulse |-> [enabled |-> TRUE, frequency |-> 500,
                                      min_intensity |-> 600,
                                      max_intensity |-> 1000]]]]

Styles ==
    {OutlineStyle, BackgroundStyle, GlowStyle, DualGlowStyle, TextShadowStyle,
     WordHighlightStyle, WordHighlightBackgroundStyle, DeepDiverStyle,
     SparkleStyle, NoEffectTypeStyle, SimpleStyle,
     SimpleCaptionStyle, BackgroundCaptionStyle, GlowCaptionStyle}

----------------------------------------------------------------------------
(* The word lists a layer is built with *)

\* the longest word list
MaxWords == 4

\* ticks from the end of a word to the start of the next: the next word
\* starts before the end, at the end, or after a silence
Gaps == {-1, 0, 2}

\* ticks from the start of a word to its end
Lens == {1}

Word(text, start, end) == [word |-> text, start |-> start, end |-> end]

\* the word texts: plain, two letters, six letters, with a blank inside,
\* empty, and forty letters
Plain == <<"a">>
Pair == <<"a", "b">>
Six == <<"a", "b", "a", "b", "a", "b">>
Spaced == <<"a", " ", "b">>
Empty == <<>>
Forty == Six \o Six \o Six \o Six \o Six \o Six \o <<"a", "b", "a", "b">>

Texts == {Plain, Pair, Six, Spaced, Empty, Forty}

\* the lists of n words of text `text` whose timings follow Gaps and Lens;
\* no word starts before time 0
RECURSIVE TimedWords(_, _)
TimedWords(n, text) ==
    IF n = 0 THEN {<<>>}
    ELSE UNION {
           LET last_end == IF Len(ws) = 0 THEN 0 ELSE ws[Len(ws)].end
           IN  {Append(ws, Word(text, last_end + g, last_end + g + l)) :
                   g \in {g0 \in Gaps : last_end + g0 >= 0}, l \in Lens}
           : ws \in TimedWords(n - 1, text)}

\* n words, each lasting one tick, with two ticks of silence in between
\* (the first of them a multiple of 3); word k has text texts[k]
SpacedWords(texts) ==
    [k \in 1..Len(texts) |-> Word(texts[k], 3 * (k - 1), 3 * (k - 1) + 1)]

\* word lists of MaxWords words, of one text but for one word of another
MixedTexts ==
    {[k \in 1..MaxWords |-> IF k = odd THEN other ELSE base] :
        odd \in 1..MaxWords, other \in Texts, base \in {Pair, Six}}

Resolutions == {<<1080, 1920>>, <<1920, 1080>>, <<720, 1280>>}
Positions == {"top", "center", "bottom", "middle"}

Scenario(ws, st, res, pos, zones) ==
    [words |-> ws, style |-> st, resolution |-> res, position |-> pos,
     safe_zones |-> zones]

\* every timing, for the styles that treat the highlighted word on its own
TimingScenarios ==
    {Scenario(ws, st, <<1080, 1920>>, "bottom", TRUE) :
        ws \in UNION {TimedWords(n, Plain) : n \in 0..MaxWords},
        st \in {OutlineStyle, DualGlowStyle}}

\* every style against every mix of word texts
TextScenarios ==
    {Scenario(SpacedWords(texts), st, <<1080, 1920>>, "bottom", TRUE) :
        texts \in MixedTexts, st \in Styles}

\* every style against every geometry
GeometryScenarios ==
    {Scenario(SpacedWords([k \in 1..MaxWords |-> Pair]), st, res, pos, zones) :
        st \in Styles, res \in Resolutions, pos \in Positions, zones \in BOOLEAN}

\* every style and every geometry without any word
EmptyScenarios ==
    {Scenario(<<>>, st, res, pos, zones) :
        st \in Styles, res \in Resolutions, pos \in Positions, zones \in BOOLEAN}

Scenarios ==
    TimingScenarios \cup TextScenarios \cup GeometryScenarios \cup EmptyScenarios

----------------------------------------------------------------------------
(* The state machine: a layer is built, then queried at any times *)

NotKept == [set |-> FALSE, time |-> 0, result |-> ReturnNone, between |-> FALSE]

\* the rendering threads, and a thread that is in no call
Threads == {1, 2}
Idle == [pc |-> "idle", time |-> 0, active_window |-> PyNone,
         current_word_idx |-> PyNone, canvas |-> NoCanvas, result |-> ReturnNone]

\* no function applied yet
NoProbe == [op |-> "none"]

\* the object as the methods see it
this ==
    [words |-> words, style |-> style, resolution |-> resolution,
     position |-> position, safe_zones |-> safe_zones, duration |-> duration,
     text_position |-> text_position, safe_left |-> safe_left,
     safe_right |-> safe_right, safe_width |-> safe_width,
     word_windows |-> word_windows]

\* the state after StyledSubtitleLayer(words, style, resolution, position, safe_zones)
Built(sc) ==
    LET obj == StyledSubtitleLayer(sc.words, sc.style, sc.resolution, sc.position,
                                   sc.safe_zones)
    IN  /\ words = obj.words
        /\ style = obj.style
        /\ resolution = obj.resolution
        /\ position = obj.position
        /\ safe_zones = obj.safe_zones
        /\ duration = obj.duration
        /\ text_position = obj.text_position
        /\ safe_left = obj.safe_left
        /\ safe_right = obj.safe_right
        /\ safe_width = obj.safe_width
        /\ word_windows = obj.word_windows
        /\ time = -1
        /\ active_window = PyNone
        /\ current_word_idx = PyNone
        /\ canvas = NoCanvas
        /\ text_img = NoBitmap
        /\ result = ReturnNone
        /\ kept = NotKept
        /\ threads = [th \in Threads |-> Idle]
        /\ probe = NoProbe

Init == \E sc \in Scenarios : Built(sc) /\ load_default_class = "FreeTypeFont"

\* the query times: from before 0 to after the duration
Times == -1..(duration + 1)

\* layer(t): one call of __call__
Call(t) ==
    \E call \in {__call__(this, t)} :
        /\ time' = t
        /\ active_window' = call.active_window
        /\ current_word_idx' = call.current_word_idx
        /\ canvas' = call.canvas
        /\ result' = call.result
        /\ text_img' = IF call.result.kind = "frame"
                       THEN call.result.canvas.layers[Len(call.result.canvas.layers)].given
                       ELSE NoBitmap
        /\ kept' = IF kept.set /\ t # kept.time
                   THEN [kept EXCEPT !.between = TRUE]
                   ELSE kept
        /\ UNCHANGED <<fields, others>>

Next == \E t \in Times : Call(t)

Spec == Init /\ [][Next]_vars

\* The caller keeps what the last call returned, to compare later calls with
Keep ==
    /\ time >= 0
    /\ kept' = [set |-> TRUE, time |-> time, result |-> result, between |-> FALSE]
    /\ UNCHANGED <<fields, locals, others>>

\* every style, one word list, one geometry
HistoryScenarios ==
    {Scenario(SpacedWords([k \in 1..MaxWords |-> Pair]), st, <<1080, 1920>>,
              "bottom", TRUE) : st \in Styles}

InitHistory ==
    \E sc \in HistoryScenarios : Built(sc) /\ load_default_class = "FreeTypeFont"

NextHistory == Keep \/ \E t \in Times : Call(t)

SpecHistory == InitHistory /\ [][NextHistory]_vars

----------------------------------------------------------------------------
(* Styles whose descriptor lacks a key: every JSON style less one of its   *)
(* colours, less one of its effect parameters, or less the whole           *)
(* effect_parameters or text_shadow entry.                                 *)

\* the dict d without the key k
without(d, k) == [x \in DOMAIN d \ {k} |-> d[x]]

JSONStyles == {st \in Styles : st.json_config}

WithoutColor ==
    {[st EXCEPT !.config.typography.colors = without(@, c)] :
        <<st, c>> \in UNION {{<<st, c>> : c \in DOMAIN st.config.typography.colors} :
                             st \in JSONStyles}}

WithoutParameter ==
    {[st EXCEPT !.config.effect_parameters = without(@, k)] :
        <<st, k>> \in UNION {{<<st, k>> : k \in DOMAIN st.config.effect_parameters} :
                             st \in {x \in JSONStyles : Has(x.config, "effect_parameters")}}}

WithoutParameters ==
    {[st EXCEPT !.config = without(without(@, "effect_parameters"), "text_shadow")] :
        st \in JSONStyles}

SparseStyles == WithoutColor \cup WithoutParameter \cup WithoutParameters

SparseScenarios ==
    {Scenario(SpacedWords([k \in 1..MaxWords |-> Pair]), st, <<1080, 1920>>,
              "bottom", TRUE) : st \in SparseStyles}

InitSparse ==
    \E sc \in SparseScenarios : Built(sc) /\ load_default_class = "FreeTypeFont"

SpecSparse == InitSparse /\ [][Next]_vars

----------------------------------------------------------------------------
(* Styles whose font file cannot be loaded, on either kind of Pillow *)

FontlessStyles ==
    {[st EXCEPT !.config.typography.font_family = "NoSuchFont.ttf"] : st \in Styles}

FontScenarios ==
    {Scenario(SpacedWords([k \in 1..MaxWords |-> Pair]), st, <<1080, 1920>>,
              "bottom", TRUE) : st \in FontlessStyles}

InitFonts ==
    \E sc \in FontScenarios, class \in DefaultFontClasses :
        Built(sc) /\ load_default_class = class

SpecFonts == InitFonts /\ [][Next]_vars

----------------------------------------------------------------------------
(* Loading a style by name.  A style file is missing, is not JSON, or      *)
(* holds a dict from style names to configurations.  What a function       *)
(* prints is the list of its lines, a line being what it says and the      *)
(* value it names.                                                         *)

\* the style names of the pipeline (self.available_styles)
available_styles ==
    {"simple_caption", "background_caption", "glow_caption", "karaoke_style",
     "highlight_caption", "deep_diver", "popling_caption", "greengoblin",
     "sgone_caption"}

\* the names a style file may hold, and a configuration for each
CatalogNames == {"simple_caption", "glow_caption", "karaoke_style", "deep_diver"}

ConfigOf(style_name) ==
    CASE style_name = "simple_caption" -> OutlineStyle.config
      [] style_name = "glow_caption" -> GlowStyle.config
      [] style_name = "karaoke_style" -> DualGlowStyle.config
      [] OTHER -> DeepDiverStyle.config

StyleFiles ==
    {[state |-> "missing", styles |-> <<>>], [state |-> "corrupt", styles |-> <<>>]}
    \cup {[state |-> "json", styles |-> [n \in S |-> ConfigOf(n)]] :
             S \in SUBSET CatalogNames}

\* the names asked for: those of the pipeline and one nobody knows
RequestedNames == available_styles \cup {"no_such_style"}

\* return None
NoStyle == [class_name |-> "NoneType", json_config |-> FALSE, config |-> <<>>]

\* A variant of the loader, to try the properties against: an unknown name
\* gives None without a word
load_silently(file, style_name) ==
    IF file.state = "json" /\ style_name \in DOMAIN file.styles
    THEN [returned |-> JSONConfiguredStyle(file.styles[style_name]), printed |-> <<>>]
    ELSE [returned |-> NoStyle, printed |-> <<>>]

\* StyleLoader.load_style_from_json(json_path, style_name)
load_style_from_json(file, style_name) ==
    CASE file.state = "missing" ->
           [returned |-> NoStyle, printed |-> <<<<"Style file not found", "json_path">>>>]
      [] file.state = "corrupt" ->
           [returned |-> NoStyle, printed |-> <<<<"Error parsing JSON", "e">>>>]
      [] OTHER ->
           IF style_name \notin DOMAIN file.styles
           THEN [returned |-> NoStyle,
                 printed |-> << <<"Style not found in json_path", style_name>>,
                                <<"Available styles", DOMAIN file.styles>> >>]
           ELSE [returned |-> JSONConfiguredStyle(file.styles[style_name]),
                 printed |-> <<>>]

\* AVAILABLE_STYLES of subtitle_styles/styles/__init__.py
AVAILABLE_STYLES ==
    [style_id \in {"simple", "background", "glow"} |->
        CASE style_id = "simple" -> SimpleCaptionStyle
          [] style_id = "background" -> BackgroundCaptionStyle
          [] OTHER -> GlowCaptionStyle]

\* get_style(style_id): the style, or ValueError with its message
get_style(style_id) ==
    IF style_id \notin DOMAIN AVAILABLE_STYLES
    THEN [returned |-> NoStyle, exc |-> "ValueError",
          message |-> << <<"Unknown style", style_id>>,
                         <<"Available styles", DOMAIN AVAILABLE_STYLES>> >>]
    ELSE [returned |-> AVAILABLE_STYLES[style_id], exc |-> "", message |-> <<>>]

\* add_subtitle_layer(words, style_name) of the editing pipeline: the layer
\* it built, if it built one
add_subtitle_layer(file, ws, style_name) ==
    IF style_name \notin available_styles
    THEN [built |-> FALSE, style |-> NoStyle,
          printed |-> << <<"Unknown subtitle style", style_name>>,
                         <<"Available styles", available_styles>> >>]
    ELSE LET loaded == load_style_from_json(file, style_name)
         IN  IF loaded.returned = NoStyle
             THEN [built |-> FALSE, style |-> NoStyle,
                   printed |-> loaded.printed
                               \o << <<"Could not load subtitle style", style_name>> >>]
             ELSE [built |-> TRUE, style |-> loaded.returned,
                   printed |-> loaded.printed
                               \o << <<"Added subtitle layer", style_name>> >>]

LoadStyle(file, style_name) ==
    /\ probe' = [op |-> "load_style_from_json", file |-> file,
                 style_name |-> style_name,
                 out |-> load_style_from_json(file, style_name)]
    /\ UNCHANGED <<fields, locals, kept, load_default_class, threads>>

GetStyle(style_id) ==
    /\ probe' = [op |-> "get_style", style_name |-> style_id,
                 out |-> get_style(style_id)]
    /\ UNCHANGED <<fields, locals, kept, load_default_class, threads>>

\* the pipeline builds the layer with the style it loaded, or builds nothing
AddSubtitleLayer(file, style_name) ==
    \E out \in {add_subtitle_layer(file, words, style_name)} :
        /\ probe' = [op |-> "add_subtitle_layer", file |-> file,
                     style_name |-> style_name, out |-> out]
        /\ IF out.built
           THEN /\ style' = out.style
                /\ UNCHANGED <<words, resolution, position, safe_zones, duration,
                               text_position, safe_left, safe_right, safe_width,
                               word_windows>>
           ELSE UNCHANGED fields
        /\ UNCHANGED <<locals, kept, load_default_class, threads>>

NextLoad ==
    \/ \E file \in StyleFiles, style_name \in RequestedNames : LoadStyle(file, style_name)
    \/ \E style_id \in DOMAIN AVAILABLE_STYLES \cup RequestedNames : GetStyle(style_id)
    \/ \E file \in StyleFiles, style_name \in RequestedNames :
           AddSubtitleLayer(file, style_name)

\* one word list, one geometry, a style loaded earlier
LoadScenarios ==
    {Scenario(SpacedWords([k \in 1..MaxWords |-> Pair]), OutlineStyle,
              <<1080, 1920>>, "bottom", TRUE)}

InitLoad == \E sc \in LoadScenarios : Built(sc) /\ load_default_class = "FreeTypeFont"

SpecLoad == InitLoad /\ [][NextLoad]_vars

----------------------------------------------------------------------------
(* Every style on canvases from far larger to far smaller than the bitmaps *)
(* of the effects, which are 1080 wide and 200, 300 or 600 high.           *)

AnyResolutions ==
    Resolutions \cup {<<3840, 2160>>, <<200, 100>>, <<106, 60>>, <<100, 100>>,
                      <<80, 80>>, <<40, 40>>, <<2, 2>>}

AnyGeometryScenarios ==
    {Scenario(SpacedWords([k \in 1..MaxWords |-> Pair]), st, res, pos, zones) :
        st \in Styles, res \in AnyResolutions, pos \in Positions, zones \in BOOLEAN}

InitGeometry ==
    \E sc \in AnyGeometryScenarios : Built(sc) /\ load_default_class = "FreeTypeFont"

SpecGeometry == InitGeometry /\ [][Next]_vars

----------------------------------------------------------------------------
(* The glow pulse on its own: create_animated_glow_pulse at the times that *)
(* are a whole number of quarter periods of the pulse.                     *)

\* the last time of a pulse, in ticks
MaxPulseTime == 8

\* pulse frequencies in thousandths of a hertz: 0.25 Hz, 0.5 Hz, 1 Hz
PulseFrequencies == {250, 500, 1000}

\* min_intensity and max_intensity, in thousandths
MinIntensities == {0, 300, 540}
MaxIntensities == {800, 900, 1000}

\* the times at which the phase is a whole number of quarter turns
PulseTimes(pulse_frequency) ==
    {t \in 0..MaxPulseTime : (t * pulse_frequency) % 500 = 0}

glow_pulse(t, pulse_frequency, min_intensity, max_intensity) ==
    create_animated_glow_pulse(<<"A", "B">>, "Montserrat-Black.ttf", 68, "white",
                               "pink", t, pulse_frequency, min_intensity,
                               max_intensity, ImageSize)

\* the effect at time 0 and at time t, for one pulse
Pulse(t, pulse_frequency, min_intensity, max_intensity) ==
    /\ probe' = [op |-> "create_animated_glow_pulse", time |-> t,
                 pulse_frequency |-> pulse_frequency,
                 min_intensity |-> min_intensity, max_intensity |-> max_intensity,
                 at_zero |-> glow_pulse(0, pulse_frequency, min_intensity,
                                        max_intensity),
                 out |-> glow_pulse(t, pulse_frequency, min_intensity, max_intensity),
                 again |-> NoBitmap]
    /\ UNCHANGED <<fields, locals, kept, load_default_class, threads>>

\* the effect once more, with the same arguments
PulseAgain ==
    /\ probe.op = "create_animated_glow_pulse"
    /\ probe.again = NoBitmap
    /\ probe' = [probe EXCEPT !.again =
                     glow_pulse(probe.time, probe.pulse_frequency,
                                probe.min_intensity, probe.max_intensity)]
    /\ UNCHANGED <<fields, locals, kept, load_default_class, threads>>

NextPulse ==
    \/ \E pulse_frequency \in PulseFrequencies, min_intensity \in MinIntensities,
          max_intensity \in MaxIntensities :
           \E t \in PulseTimes(pulse_frequency) :
               Pulse(t, pulse_frequency, min_intensity, max_intensity)
    \/ PulseAgain

SpecPulse == InitLoad /\ [][NextPulse]_vars

----------------------------------------------------------------------------
(* The segmenter on its own: _create_word_windows(words_per_window) on the *)
(* words of a layer, for every window size.                                *)

\* the largest window size
MaxPerWindow == 4

\* every timing of one text, and every mix of texts
WindowScenarios ==
    {Scenario(ws, OutlineStyle, <<1080, 1920>>, "bottom", TRUE) :
        ws \in UNION {TimedWords(n, Plain) : n \in 0..MaxWords}
               \cup {SpacedWords(texts) : texts \in MixedTexts}}

InitWindows ==
    \E sc \in WindowScenarios : Built(sc) /\ load_default_class = "FreeTypeFont"

\* self._create_word_windows(words_per_window)
Segment(words_per_window) ==
    /\ probe' = [op |-> "_create_word_windows",
                 words_per_window |-> words_per_window,
                 returned |-> _create_word_windows(words, words_per_window)]
    /\ UNCHANGED <<fields, locals, kept, load_default_class, threads>>

NextWindows == \E words_per_window \in 1..MaxPerWindow : Segment(words_per_window)

SpecWindows == InitWindows /\ [][NextWindows]_vars

----------------------------------------------------------------------------
(* Several threads call the same layer.  A call advances in the steps of   *)
(* __call__: the check of the time and the scan of the windows, the        *)
(* allocation of the canvas, the scan of the words, and the renderer with  *)
(* its return.  The steps of different threads interleave in any order.    *)

\* layer(t) begins in thread th
Enter(th, t) ==
    /\ threads[th].pc = "idle"
    /\ threads' = [threads EXCEPT ![th] = [Idle EXCEPT !.pc = "scan", !.time = t]]
    /\ UNCHANGED <<fields, locals, kept, load_default_class, probe>>

\* if time < 0 or time > self.duration: return None; the scan of the windows;
\* if not active_window: return None
ScanWindows(th) ==
    /\ threads[th].pc = "scan"
    /\ LET t == threads[th].time
           found == find_active_window(this, t)
       IN  threads' = [threads EXCEPT ![th] =
               IF t < 0 \/ t > duration \/ found.none
               THEN [@ EXCEPT !.pc = "done", !.result = ReturnNone]
               ELSE [@ EXCEPT !.pc = "alloc", !.active_window = found]]
    /\ UNCHANGED <<fields, locals, kept, load_default_class, probe>>

\* canvas = np.zeros(...)
Allocate(th) ==
    /\ threads[th].pc = "alloc"
    /\ threads' = [threads EXCEPT ![th] =
           [@ EXCEPT !.pc = "word", !.canvas = np_zeros(resolution)]]
    /\ UNCHANGED <<fields, locals, kept, load_default_class, probe>>

\* the scan of the words of the active window
ScanWords(th) ==
    /\ threads[th].pc = "word"
    /\ threads' = [threads EXCEPT ![th] =
           [@ EXCEPT !.pc = "render",
                     !.current_word_idx =
                         find_current_word(
                             word_windows[threads[th].active_window.val + 1],
                             threads[th].time)]]
    /\ UNCHANGED <<fields, locals, kept, load_default_class, probe>>

\* return self._render_..._style(canvas, active_window, current_word_idx, time)
Render(th) ==
    /\ threads[th].pc = "render"
    /\ threads' = [threads EXCEPT ![th] =
           [@ EXCEPT !.pc = "done",
                     !.result = dispatch(this, threads[th].canvas,
                                    word_windows[threads[th].active_window.val + 1],
                                    threads[th].current_word_idx,
                                    threads[th].time)]]
    /\ UNCHANGED <<fields, locals, kept, load_default_class, probe>>

\* the caller takes the frame; the thread is free for its next call
Return(th) ==
    /\ threads[th].pc = "done"
    /\ threads' = [threads EXCEPT ![th] = Idle]
    /\ UNCHANGED <<fields, locals, kept, load_default_class, probe>>

NextThreads ==
    \E th \in Threads :
        \/ \E t \in Times : Enter(th, t)
        \/ ScanWindows(th)
        \/ Allocate(th)
        \/ ScanWords(th)
        \/ Render(th)
        \/ Return(th)

SpecThreads == InitHistory /\ [][NextThreads]_vars

----------------------------------------------------------------------------
(* The font files read.  Every effect asks ImageFont.truetype for its font *)
(* each time it is called; nothing in the package keeps a font once        *)
(* loaded.  The font sizes a call asks for are those of its bitmap; what   *)
(* is read so far, and what was read again after it had been read, is kept *)
(* in probe.                                                               *)

\* the sizes the loop of _create_background_text asks the font at
RECURSIVE shrink_sizes(_, _, _, _)
shrink_sizes(font_family, text, max_text_width, current_font_size) ==
    IF current_font_size > 20
    THEN {current_font_size}
         \cup (IF text_width(text, load_font(font_family, current_font_size))
                     <= max_text_width
               THEN {}
               ELSE shrink_sizes(font_family, text, max_text_width,
                                 (current_font_size * 95) \div 100))
    ELSE {}

\* the pairs (font path, font size) given to ImageFont.truetype while the
\* renderer of the style draws the window, for a style with all its keys
truetype_calls(self, window, idx, t) ==
    LET st == self.style
        typo == st.config["typography"]
        font_family == typo["font_family"]
        font_size == typo["font_size"]
        is_highlighted == ~idx.none
        font_size1 == IF is_highlighted
                      THEN Get(typo, "font_size_highlighted", font_size)
                      ELSE font_size
        effect_type == IF st.json_config
                       THEN Get(st.config, "effect_type", "simple") ELSE "class"
    IN  CASE effect_type = "background" ->
               LET img == _create_background_text(st, window.text, font_size,
                                                  is_highlighted)
               IN  {<<font_family, size>> :
                       size \in shrink_sizes(font_family, img.tokens[1],
                                             img.paint[5], font_size1)}
          [] effect_type \in {"dual_glow", "text_shadow"} ->
               \* the effect is not reached when the index is None
               IF idx.none THEN {}
               ELSE LET img == create_styled_text(st, window.text, font_size, t,
                                                  FALSE, idx)
                    IN  {<<font_family, font_size>>}
                        \cup (IF img.font.kind = "truetype"
                              THEN {<<font_family, img.font.size>>} ELSE {})
          [] effect_type \in {"word_highlight", "deep_diver"} ->
               {<<font_family, font_size>>}
          [] OTHER ->
               {<<font_family, font_size1>>}

\* the calls of truetype that gave a font
loaded_fonts(requests) ==
    {request \in requests : load_font(request[1], request[2]).kind = "truetype"}

NoReads == [op |-> "truetype", loaded |-> {}, again |-> {}]

\* layer(t), and the font files it read
Draw(t) ==
    \E call \in {__call__(this, t)} :
        LET before == IF probe.op = "truetype" THEN probe ELSE NoReads
            loads == IF call.active_window.none THEN {}
                     ELSE loaded_fonts(truetype_calls(
                              this, word_windows[call.active_window.val + 1],
                              call.current_word_idx, t))
        IN  /\ time' = t
            /\ active_window' = call.active_window
            /\ current_word_idx' = call.current_word_idx
            /\ canvas' = call.canvas
            /\ result' = call.result
            /\ text_img' = IF call.result.kind = "frame"
                           THEN call.result.canvas.layers[
                                    Len(call.result.canvas.layers)].given
                           ELSE NoBitmap
            /\ probe' = [op |-> "truetype",
                         loaded |-> before.loaded \cup loads,
                         again |-> before.again \cup (loads \cap before.loaded)]
            /\ UNCHANGED <<fields, kept, load_default_class, threads>>

NextReads == \E t \in Times : Draw(t)

SpecReads == InitHistory /\ [][NextReads]_vars

----------------------------------------------------------------------------
(* The catalog written and read back.  json.dump writes a dict as a JSON   *)
(* object, a number in decimal digits, a bool as true or false, a str as a *)
(* string and a list as an array; json.load reads them back.  What a value *)
(* of a descriptor is follows from its key: the colours are lists of       *)
(* numbers, here known by their names.                                     *)

ObjectKeys ==
    {"typography", "colors", "effect_parameters", "background_padding", "pulse",
     "text_shadow", "layout"}
StringKeys == {"effect_type", "font_family", "text_transform"}
BooleanKeys == {"enabled"}
ArrayKeys ==
    {"text", "normal", "outline", "background", "background_highlighted", "glow",
     "glow_highlighted", "text_normal", "text_highlighted", "glow_normal",
     "active_text", "inactive_text"}

\* str(n) of an int n >= 0: its decimal digits
RECURSIVE to_digits(_)
to_digits(n) == IF n < 10 THEN <<n>> ELSE Append(to_digits(n \div 10), n % 10)

\* A variant of the reading of a number, to try the properties against: the
\* digits are taken from the right
RECURSIVE from_the_right(_)
from_the_right(digits) ==
    IF Len(digits) = 1 THEN digits[1]
    ELSE digits[1] + 10 * from_the_right(Tail(digits))

\* int(digits)
RECURSIVE from_digits(_)
from_digits(digits) ==
    IF Len(digits) = 1 THEN digits[1]
    ELSE from_digits(SubSeq(digits, 1, Len(digits) - 1)) * 10 + digits[Len(digits)]

\* json.dump(config, f): the JSON text, as the tree of its values
RECURSIVE json_dump(_)
json_dump(d) ==
    [k \in DOMAIN d |->
        CASE k \in ObjectKeys -> [json |-> "object", members |-> json_dump(d[k])]
          [] k \in StringKeys -> [json |-> "string", chars |-> d[k]]
          [] k \in ArrayKeys -> [json |-> "array", items |-> d[k]]
          [] k \in BooleanKeys ->
               [json |-> IF d[k] THEN "true" ELSE "false"]
          [] OTHER -> [json |-> "number", digits |-> to_digits(d[k])]]

\* json.load(f): a dict for an object, a str for a string, a list for an
\* array, a bool for true and false, an int for a number
RECURSIVE json_load(_)
json_load(members) ==
    [k \in DOMAIN members |->
        CASE members[k].json = "object" -> json_load(members[k].members)
          [] members[k].json = "string" -> members[k].chars
          [] members[k].json = "array" -> members[k].items
          [] members[k].json = "true" -> TRUE
          [] members[k].json = "false" -> FALSE
          [] OTHER -> from_digits(members[k].digits)]

\* the style file after json.dump(styles, f), as load_style_from_json opens it
written_file(styles) ==
    [state |-> "json",
     styles |-> [n \in DOMAIN styles |->
                    json_load(json_dump(styles[n]))]]

\* the descriptor of the layer's style is written under a name and loaded again
Reload(style_name) ==
    /\ style.json_config
    /\ \E file \in {written_file([n \in {style_name} |-> style.config])} :
           probe' = [op |-> "reload", style_name |-> style_name, file |-> file,
                     out |-> load_style_from_json(file, style_name)]
    /\ UNCHANGED <<fields, locals, kept, load_default_class, threads>>

NextReload ==
    \/ \E style_name \in CatalogNames : Reload(style_name)
    \/ \E t \in Times : Call(t)

\* every JSON style, one word list, one geometry
InitReload ==
    \E sc \in {h \in HistoryScenarios : h.style.json_config} :
        Built(sc) /\ load_default_class = "FreeTypeFont"

SpecReload == InitReload /\ [][NextReload]_vars

----------------------------------------------------------------------------
(* Word lists whose timestamps overlap or are out of order: one word more  *)
(* than a window holds, each word over any of a few spans of time, in any  *)
(* order.                                                                  *)

Spans == {<<0, 1>>, <<3, 4>>, <<0, 4>>, <<6, 7>>}

UnorderedWords ==
    {[k \in 1..4 |-> Word(Pair, spans[k][1], spans[k][2])] :
        spans \in [1..4 -> Spans]}

\* one JSON style of each effect type
OneStylePerEffect ==
    {OutlineStyle, BackgroundStyle, GlowStyle, DualGlowStyle, TextShadowStyle,
     WordHighlightStyle, DeepDiverStyle, SimpleStyle}

UnorderedScenarios ==
    {Scenario(ws, st, <<1080, 1920>>, "bottom", TRUE) :
        ws \in UnorderedWords, st \in OneStylePerEffect}

InitUnordered ==
    \E sc \in UnorderedScenarios : Built(sc) /\ load_default_class = "FreeTypeFont"

SpecUnordered == InitUnordered /\ [][Next]_vars

----------------------------------------------------------------------------
(* Styles whose layout names the number of words per window *)

\* a style with layout.words_per_window = k
WithLayout(st, k) ==
    [st EXCEPT !.config =
        [key \in DOMAIN st.config \cup {"layout"} |->
            IF key = "layout" THEN [words_per_window |-> k] ELSE st.config[key]]]

LayoutStyles ==
    {WithLayout(st, k) : st \in {WordHighlightStyle, DeepDiverStyle, OutlineStyle},
                         k \in 1..MaxPerWindow}

LayoutScenarios ==
    {Scenario(SpacedWords([k \in 1..n |-> Pair]), st, <<1080, 1920>>, "bottom", TRUE) :
        n \in 0..MaxWords, st \in LayoutStyles}

InitLayout ==
    \E sc \in LayoutScenarios : Built(sc) /\ load_default_class = "FreeTypeFont"

SpecLayout == InitLayout /\ [][Next]_vars

----------------------------------------------------------------------------
(* Every effect type with every text_transform, on words in mixed case *)

TextTransforms == {"uppercase", "lowercase", "none"}

MixedCase == <<"A", "b">>

TransformStyles ==
    {[st EXCEPT !.config.typography.text_transform = transform] :
        st \in OneStylePerEffect, transform \in TextTransforms}

TransformScenarios ==
    {Scenario(SpacedWords([k \in 1..n |-> MixedCase]), st, <<1080, 1920>>,
              "bottom", TRUE) :
        n \in 1..MaxWords, st \in TransformStyles}

InitTransform ==
    \E sc \in TransformScenarios : Built(sc) /\ load_default_class = "FreeTypeFont"

SpecTransform == InitTransform /\ [][Next]_vars

----------------------------------------------------------------------------
(* The scale of a background image.  A scale is the fraction num / den of  *)
(* two positive integers; fractions are compared by cross multiplication.  *)

Fraction(num, den) == [num |-> num, den |-> den]

\* a <= b for two fractions
less_equal(a, b) == a.num * b.den <= b.num * a.den

min_scale(a, b) == IF less_equal(a, b) THEN a ELSE b
max_scale(a, b) == IF less_equal(a, b) THEN b ELSE a

Abs(n) == IF n < 0 THEN -n ELSE n

\* abs(image_aspect - target_aspect) < aspect_tolerance, with
\* aspect_tolerance = 0.01
aspects_close(image_size, target_size) ==
    100 * Abs(image_size[1] * target_size[2] - target_size[1] * image_size[2])
        < image_size[2] * target_size[2]

\* DynamicVideoEditor.calculate_cover_scale
calculate_cover_scale(image_size, target_size) ==
    LET scale_x == Fraction(target_size[1], image_size[1])
        scale_y == Fraction(target_size[2], image_size[2])
    IN  IF aspects_close(image_size, target_size)
        THEN min_scale(scale_x, scale_y)
        ELSE max_scale(scale_x, scale_y)

\* calculate_cover_scale of integrated_editing_pipeline.py
pipeline_calculate_cover_scale(image_size, target_size) ==
    LET scale_x == Fraction(target_size[1], image_size[1])
        scale_y == Fraction(target_size[2], image_size[2])
    IN  max_scale(scale_x, scale_y)

\* the sizes of the images and of the compositions
ImageSizes ==
    {540, 768, 1000, 1080, 1920} \X {960, 1000, 1080, 1360, 1920}
TargetSizes == {<<1080, 1920>>, <<1920, 1080>>, <<1080, 1080>>}

CoverScale(image_size, target_size) ==
    /\ probe' = [op |-> "calculate_cover_scale", of |-> "DynamicVideoEditor",
                 image_size |-> image_size, target_size |-> target_size,
                 out |-> calculate_cover_scale(image_size, target_size)]
    /\ UNCHANGED <<fields, locals, kept, load_default_class, threads>>

PipelineCoverScale(image_size, target_size) ==
    /\ probe' = [op |-> "calculate_cover_scale", of |-> "integrated_editing_pipeline",
                 image_size |-> image_size, target_size |-> target_size,
                 out |-> pipeline_calculate_cover_scale(image_size, target_size)]
    /\ UNCHANGED <<fields, locals, kept, load_default_class, threads>>

NextCover ==
    \/ \E image_size \in ImageSizes, target_size \in TargetSizes :
           CoverScale(image_size, target_size)
    \/ \E image_size \in ImageSizes, target_size \in TargetSizes :
           PipelineCoverScale(image_size, target_size)

SpecCover == InitLoad /\ [][NextCover]_vars

----------------------------------------------------------------------------
(* The loop of _create_background_text, one iteration at a time.  probe    *)
(* holds the call: its arguments, the width the text must fit in, the      *)
(* variables of the loop (loop) and the font sizes tried so far (sizes).   *)

\* max_text_width = max_background_width - pad_x * 2 - outline_width * 4
max_text_width_of(self) ==
    LET effects == Get(self.config, "effect_parameters", EmptyDict)
        img_width == 1080
        safe_margin == 50
        padding == Get(effects, "background_padding", [x |-> 120, y |-> 50])
        pad_x == padding["x"]
        outline_width == IF Get(effects, "text_has_outline", FALSE)
                         THEN Get(effects, "outline_width", 3) ELSE 0
        max_background_width == img_width - (safe_margin * 2)
    IN  max_background_width - (pad_x * 2) - (outline_width * 4)

\* A variant of the body of the loop, to try the properties against: the
\* font size is kept when the text does not fit
keeps_size(font_family, text, max_text_width, st) ==
    LET font == load_font(font_family, st.current_font_size)
    IN  IF text_width(text, font) <= max_text_width
        THEN [st EXCEPT !.font = font, !.text_fits = TRUE]
        ELSE [st EXCEPT !.font = font]

\* the body of the loop: load the font, measure the text, and either note
\* that it fits or take int(current_font_size * 0.95)
loop_body(font_family, text, max_text_width, st) ==
    LET font == load_font(font_family, st.current_font_size)
    IN  IF text_width(text, font) <= max_text_width
        THEN [st EXCEPT !.font = font, !.text_fits = TRUE]
        ELSE [st EXCEPT !.font = font,
                        !.current_font_size = (st.current_font_size * 95) \div 100]

\* background styles of several paddings, with and without an outline, whose
\* font file is there or not
ShrinkStyles ==
    {[BackgroundStyle EXCEPT
         !.config.typography.font_family = font_family,
         !.config.effect_parameters =
             [background_padding |-> [x |-> pad_x, y |-> 50],
              text_has_outline |-> has_outline, outline_width |-> 3]] :
        font_family \in {"Montserrat-Black.ttf", "NoSuchFont.ttf"},
        pad_x \in {120, 490, 500}, has_outline \in BOOLEAN}

\* the font sizes asked for
FontSizes == {0, 20, 21, 22, 40, 140, 1000}

\* _create_background_text(text, font_size, is_highlighted) reaches its loop
EnterLoop(self, text, font_size, is_highlighted) ==
    /\ probe.op = "_create_background_text" => probe.pc = "done"
    /\ probe' = [op |-> "_create_background_text", pc |-> "while",
                 self |-> self, font_size |-> font_size,
                 is_highlighted |-> is_highlighted,
                 text |-> transform_upper(self.config["typography"], text),
                 max_text_width |-> max_text_width_of(self),
                 loop |-> [current_font_size |->
                              IF is_highlighted
                              THEN Get(self.config["typography"],
                                       "font_size_highlighted", font_size)
                              ELSE font_size,
                          font |-> NoneFont, text_fits |-> FALSE],
                 sizes |-> <<>>]
    /\ UNCHANGED <<fields, locals, kept, load_default_class, threads>>

\* while current_font_size > 20 and not text_fits: one iteration
Iterate ==
    /\ probe.op = "_create_background_text"
    /\ probe.pc = "while"
    /\ probe.loop.current_font_size > 20 /\ ~probe.loop.text_fits
    /\ probe' = [probe EXCEPT
                     !.loop = loop_body(
                                  probe.self.config["typography"]["font_family"],
                                  probe.text, probe.max_text_width, probe.loop),
                     !.sizes = Append(@, probe.loop.current_font_size)]
    /\ UNCHANGED <<fields, locals, kept, load_default_class, threads>>

\* the condition of the while is false
LeaveLoop ==
    /\ probe.op = "_create_background_text"
    /\ probe.pc = "while"
    /\ ~(probe.loop.current_font_size > 20 /\ ~probe.loop.text_fits)
    /\ probe' = [probe EXCEPT !.pc = "done"]
    /\ UNCHANGED <<fields, locals, kept, load_default_class, threads>>

NextShrink ==
    \/ \E self \in ShrinkStyles, text \in Texts, font_size \in FontSizes,
          is_highlighted \in BOOLEAN :
           EnterLoop(self, text, font_size, is_highlighted)
    \/ Iterate
    \/ LeaveLoop

\* a call that has begun goes on
SpecShrink ==
    InitLoad /\ [][NextShrink]_vars /\ WF_vars(Iterate) /\ WF_vars(LeaveLoop)

----------------------------------------------------------------------------
(* Times between two ticks.  get_key rounds the time to a tenth of a       *)
(* second, so two times with one key lie less than a tick apart.  Here the *)
(* times of a layer are counted in fortieths of a second (20 to the tick); *)
(* a pulse frequency is divided by 20 with them, so that time * frequency  *)
(* is the same number of quarter turns.  The pulse is drawn at whole       *)
(* quarter turns, so the pulsing styles here pulse at 10 Hz, a quarter     *)
(* turn to the fortieth of a second.                                       *)

in_fortieths_word(word) == [word EXCEPT !.start = @ * 20, !.end = @ * 20]

in_fortieths_style(st) ==
    IF st.json_config
    THEN IF Has(st.config, "effect_parameters")
            /\ Has(st.config["effect_parameters"], "pulse")
         THEN [st EXCEPT !.config.effect_parameters.pulse.frequency = @ \div 20]
         ELSE st
    ELSE IF Has(st.config, "glow")
         THEN [st EXCEPT !.config.glow.pulse.frequency = @ \div 20]
         ELSE st

\* the layer with its times in fortieths of a second
in_fortieths(self) ==
    [self EXCEPT
        !.words = [k \in 1..Len(self.words) |-> in_fortieths_word(self.words[k])],
        !.duration = @ * 20,
        !.style = in_fortieths_style(self.style),
        !.word_windows =
            [i \in 1..Len(self.word_windows) |->
                [words |-> [k \in 1..Len(self.word_windows[i].words) |->
                               in_fortieths_word(self.word_windows[i].words[k])],
                 start |-> self.word_windows[i].start * 20,
                 end |-> self.word_windows[i].end * 20,
                 text |-> self.word_windows[i].text]]]

\* round(time, 1) in tenths of a second, for a time in fortieths that is not
\* halfway between two tenths
round_tenths(q) == (q + 2) \div 4

\* get_key(time) of a layer in fortieths: None, or the class name of the
\* style, the index of the first window that contains time, the index of
\* its first word that contains time, and the rounded time
get_key(self, q) ==
    LET hits == {i \in 1..Len(self.word_windows) : contains(self.word_windows[i], q)}
        i == SetMin(hits)
    IN  IF hits = {} THEN [none |-> TRUE, key |-> <<>>]
        ELSE [none |-> FALSE,
              key |-> <<self.style.class_name, i - 1,
                        find_current_word(self.word_windows[i], q),
                        round_tenths(q)>>]

\* the last time asked, in fortieths of a second
MaxFineTime == 44

\* the times that are not halfway between two tenths of a second
FineTimes == {q \in 0..MaxFineTime : q % 4 # 2}

FastPulseStyle ==
    [GlowStyle EXCEPT !.config.effect_parameters.pulse.frequency = 10000]

FastPulseCaptionStyle ==
    [GlowCaptionStyle EXCEPT !.config.glow.pulse.frequency = 10000]

KeyStyles ==
    (OneStylePerEffect \ {GlowStyle}) \cup {FastPulseStyle, FastPulseCaptionStyle}

KeyScenarios ==
    {Scenario(SpacedWords([k \in 1..MaxWords |-> Pair]), st, <<1080, 1920>>,
              "bottom", TRUE) : st \in KeyStyles}

InitKeys == \E sc \in KeyScenarios : Built(sc) /\ load_default_class = "FreeTypeFont"

NoKey == [op |-> "get_key", asked |-> FALSE]

\* get_key(q) and layer(q), after the key and the frame of the time before
KeyAndFrame(q) ==
    \E fine \in {in_fortieths(this)} :
        /\ probe' = [op |-> "get_key", asked |-> TRUE, time |-> q,
                     key |-> get_key(fine, q),
                     frame |-> __call__(fine, q).result,
                     before |-> IF probe.op = "get_key"
                                THEN [probe EXCEPT !.before = NoKey]
                                ELSE NoKey]
        /\ UNCHANGED <<fields, locals, kept, load_default_class, threads>>

NextKeys == \E q \in FineTimes : KeyAndFrame(q)

SpecKeys == InitKeys /\ [][NextKeys]_vars

----------------------------------------------------------------------------
(* What the properties speak of *)

effect_type_of(st) ==
    IF st.json_config THEN Get(st.config, "effect_type", "simple") ELSE "class"

\* the 1-based indices of the windows whose interval contains the last query time
WindowsAt == {i \in 1..Len(word_windows) : contains(word_windows[i], time)}

InWindow == WindowsAt # {}

\* the 1-based indices of the words of window w whose interval contains the
\* last query time
WordsAt(w) == {k \in 1..Len(w.words) : contains(w.words[k], time)}

\* the last call returned a canvas of the target resolution
IsFrame ==
    /\ result.kind = "frame"
    /\ result.canvas.h = resolution[2]
    /\ result.canvas.w = resolution[1]

\* the window the last call rendered
Rendered == word_windows[active_window.val + 1]

\* the last call was made between two words of its window
InGap == InWindow /\ WordsAt(word_windows[SetMin(WindowsAt)]) = {}

\* token i (0-based) of the bitmap is the text of word i of the rendered window
SameWord(i) ==
    /\ i < Len(text_img.tokens)
    /\ i < Len(Rendered.words)
    /\ lower(text_img.tokens[i + 1]) = lower(Rendered.words[i + 1].word)

----------------------------------------------------------------------------
\* C1: at every query time inside some window's [start, end], the call
\* returns a bitmap (not None, no exception) whose height and width are those
\* of the resolution given at construction.
C1_FrameInsideWindow == InWindow => IsFrame

\* C1, where it fails: a dual_glow or text_shadow layer queried inside a
\* window but between two words raises TypeError (None >= 0).
C1_RaisesBetweenWords ==
    /\ InGap
    /\ effect_type_of(style) \in {"dual_glow", "text_shadow"}
    /\ result.kind = "raise"
    /\ result.exc = "TypeError"

\* C2: at every query time outside every window's [start, end], or outside
\* [0, duration] with duration = the last word's end + one second, the call
\* returns None.
C2_NoneOutside ==
    /\ duration = (IF Len(words) = 0 THEN 0
                   ELSE SetMax({words[i].end : i \in 1..Len(words)}) + OneSecond)
    /\ (time < 0 \/ time > duration \/ ~InWindow) => result.kind = "None"

\* C2, its case: a call between two windows, and inside [0, duration],
\* returned None.
C2_BetweenWindows ==
    /\ \E i \in 1..(Len(word_windows) - 1) :
          word_windows[i].end < time /\ time < word_windows[i + 1].start
    /\ 0 <= time /\ time <= duration
    /\ result.kind = "None"

\* C3: in a call that found an active window, the highlighted word index is
\* the index of the first word of that window whose [start, end] contains the
\* query time, and it is None exactly when no word of the window contains it.
C3_HighlightedWord ==
    ~active_window.none =>
        /\ active_window.val + 1 = SetMin(WindowsAt)
        /\ current_word_idx.none <=> WordsAt(Rendered) = {}
        /\ ~current_word_idx.none =>
               current_word_idx.val + 1 = SetMin(WordsAt(Rendered))

\* C3, its case: a call inside a window and between two of its words found
\* no highlighted word.
C3_NoneInGap ==
    /\ ~active_window.none
    /\ InGap
    /\ Len(Rendered.words) > 1
    /\ current_word_idx.none

\* C4: for deep_diver and dual_glow, every call inside a window returns a
\* frame in which the words drawn highlighted are exactly the word whose
\* [start, end] contains the query time, or none between two words.
C4_OneHighlighted ==
    (InWindow /\ effect_type_of(style) \in {"deep_diver", "dual_glow"}) =>
        /\ IsFrame
        /\ text_img.hl = (IF current_word_idx.none THEN {} ELSE {current_word_idx.val})
        /\ \A i \in text_img.hl : SameWord(i)

\* C4, where it fails: a dual_glow layer between two words returns no frame.
C4_DualGlowNoFrame ==
    /\ InGap
    /\ effect_type_of(style) = "dual_glow"
    /\ result.kind = "raise"

\* C5: for word_highlight, every call inside a window draws a background
\* rectangle behind the highlighted word and behind no other word, and
\* behind no word at all when no word contains the query time.
C5_OneBackground ==
    (InWindow /\ effect_type_of(style) = "word_highlight") =>
        /\ IsFrame
        /\ DOMAIN text_img.bg =
               (IF current_word_idx.none THEN {} ELSE {current_word_idx.val})
        /\ \A i \in DOMAIN text_img.bg : SameWord(i)

\* C5, where it fails: a rectangle behind a word that is not the highlighted
\* one, or behind no word while a word is highlighted.
C5_OtherBackground ==
    /\ InWindow
    /\ effect_type_of(style) = "word_highlight"
    /\ IsFrame
    /\ \/ \E i \in DOMAIN text_img.bg :
             current_word_idx.none \/ i # current_word_idx.val \/ ~SameWord(i)
       \/ ~current_word_idx.none /\ DOMAIN text_img.bg = {}

\* C6: every blit of the compositor writes canvas columns inside
\* [safe_left, safe_right] and canvas rows inside [0, canvas height].
C6_InsideSafeArea ==
    result.kind = "frame" =>
        \A n \in 1..Len(result.canvas.layers) :
            LET blit == result.canvas.layers[n]
            IN  /\ safe_left <= blit.x
                /\ blit.x_end <= safe_right
                /\ 0 <= blit.y
                /\ blit.y_end <= result.canvas.h

\* C6, where it fails: a deep_diver bitmap is written up to the right edge
\* of the canvas, past safe_right, and so is its background box.
C6_DeepDiverPastSafeRight ==
    /\ IsFrame
    /\ effect_type_of(style) = "deep_diver"
    /\ result.canvas.layers[1].x_end > safe_right
    /\ result.canvas.layers[1].x + text_img.box[2] > safe_right

\* the heights the effects give their bitmaps
BitmapHeights == {200, 300, 600}

\* C7: for every effect type the bitmap handed to the compositor is at most
\* safe_width wide, and a bitmap that was narrowed had its height scaled by
\* the same factor.
C7_FitsSafeWidth ==
    result.kind = "frame" =>
        /\ text_img.w <= safe_width
        /\ text_img.w < 1080 =>
               \E h0 \in BitmapHeights : text_img.h = (h0 * text_img.w) \div 1080

\* C7, where it fails: the deep_diver bitmap reaches the compositor wider
\* than safe_width.
C7_DeepDiverTooWide ==
    /\ IsFrame
    /\ effect_type_of(style) = "deep_diver"
    /\ text_img.w > safe_width

\* C8: for the background effect the drawn background rectangle is at most
\* the bitmap width less the safe margin of 50 on each side wide, so that it
\* lies between the two margins.
C8_BoxWithinMargins ==
    (result.kind = "frame" /\ effect_type_of(style) = "background") =>
        /\ text_img.box[2] - text_img.box[1] <= 1080 - 2 * 50
        /\ 50 <= text_img.box[1]
        /\ text_img.box[2] <= 1080 - 50

\* C8, where it fails: a highlighted text that fits after shrinking gets its
\* padding scaled up, and the rectangle is wider than 980.
C8_BoxTooWide ==
    /\ IsFrame
    /\ effect_type_of(style) = "background"
    /\ ~current_word_idx.none
    /\ text_img.paint[4]
    /\ text_img.box[2] - text_img.box[1] > 980

C10_FieldsAndFreshCanvas ==
    [][/\ fields' = fields
       /\ canvas'.layers = <<>>
       /\ result'.kind = "frame" =>
              /\ canvas' = [h |-> resolution[2], w |-> resolution[1], layers |-> <<>>]
              /\ Len(result'.canvas.layers) = 1]_vars

\* C10, its case: a frame was returned, then a call at another time, then a
\* call that returned a frame made on a blank canvas.
C10_SecondFrame ==
    /\ kept.set
    /\ kept.result.kind = "frame"
    /\ kept.between
    /\ IsFrame
    /\ canvas.layers = <<>>
    /\ Len(result.canvas.layers) = 1

\* C11: when calls of several threads interleave in any order, every call
\* that finishes returns what the same call returns when it runs alone.
C11_AsAlone ==
    \A th \in Threads :
        threads[th].pc = "done" =>
            threads[th].result = __call__(this, threads[th].time).result

\* C11, its case: one thread has finished a frame while the other is in the
\* middle of a call at another time, its canvas allocated.
C11_Interleaved ==
    \E a, b \in Threads :
        /\ a # b
        /\ threads[a].pc = "done"
        /\ threads[a].result.kind = "frame"
        /\ threads[b].pc \in {"word", "render"}
        /\ threads[b].time # threads[a].time

\* the words of a list of windows, one window after the other
RECURSIVE WordsOf(_)
WordsOf(windows) ==
    IF Len(windows) = 0 THEN <<>>
    ELSE windows[1].words \o WordsOf(Tail(windows))

\* windows is the list of the chunks of k words of ws, from left to right
Chunked(ws, k, windows) ==
    /\ Len(windows) = (Len(ws) + k - 1) \div k
    /\ \A i \in 1..Len(windows) :
          LET w == windows[i]
          IN  /\ w.words = SubSeq(ws, (i - 1) * k + 1, Min(i * k, Len(ws)))
              /\ Len(w.words) >= 1
              /\ i < Len(windows) => Len(w.words) = k
              /\ w.start = w.words[1].start
              /\ w.end = w.words[Len(w.words)].end
    /\ WordsOf(windows) = ws
    /\ Len(ws) = 0 => windows = <<>>

\* C12: the segmenter gives the chunks of k words from left to right: window
\* i holds words i*k .. min((i+1)*k, n)-1, no window is empty, all but the
\* last hold k words, the windows put together are the word list, a window
\* starts with its first word and ends with its last, and no words give no
\* windows.  The windows of the layer are the chunks of 3.
C12_Chunks ==
    /\ Chunked(words, 3, word_windows)
    /\ probe.op = "_create_word_windows" =>
           Chunked(words, probe.words_per_window, probe.returned)

\* C12, its case: a list cut into windows with a shorter last window.
C12_ShortLastWindow ==
    /\ probe.op = "_create_word_windows"
    /\ Len(probe.returned) >= 2
    /\ Len(probe.returned[Len(probe.returned)].words) < probe.words_per_window

\* the words are in time order and do not overlap: each word ends no later
\* than the next one starts
Ordered ==
    /\ \A i \in 1..Len(words) : words[i].start <= words[i].end
    /\ \A i \in 1..(Len(words) - 1) : words[i].end <= words[i + 1].start

\* each word ends before the next one starts
Separated == \A i \in 1..(Len(words) - 1) : words[i].end < words[i + 1].start

\* C13 as stated: with words in time order that do not overlap, no query
\* time is inside two windows.
C13_NoTimeInTwoWindows == Ordered => Cardinality(WindowsAt) <= 1

\* C13, amended: with words in time order that do not overlap, two windows
\* share a query time only when it is the end of the earlier and the start
\* of the later window, and the call then takes the earlier one; with each
\* word ending before the next starts, no query time is inside two windows.
C13_OnlyTheBoundary ==
    Ordered =>
        /\ \A i, j \in WindowsAt :
              i < j => time = word_windows[i].end /\ time = word_windows[j].start
        /\ Separated => Cardinality(WindowsAt) <= 1
        /\ ~active_window.none => active_window.val + 1 = SetMin(WindowsAt)

\* C13, its case: a call at the instant where a window ends and the next
\* one starts.
C13_BoundaryInTwoWindows ==
    /\ Ordered
    /\ Cardinality(WindowsAt) = 2
    /\ ~active_window.none

\* C14: a layer built with an empty word list is built (duration 0, no
\* windows), and every call on it, the call at time 0 included, returns None
\* and raises nothing.
C14_EmptyListNone ==
    Len(words) = 0 =>
        /\ duration = 0
        /\ word_windows = <<>>
        /\ result.kind = "None"
        /\ canvas = NoCanvas

\* C14, its case: a layer without words was called at time 0.
C14_EmptyCalledAtZero ==
    /\ Len(words) = 0
    /\ time = 0
    /\ result.kind = "None"

\* the effect types __call__ names, and the effect each is drawn with
NamedEffectTypes ==
    {"outline", "background", "glow", "dual_glow", "text_shadow",
     "word_highlight", "deep_diver"}

EffectOf(effect_type) ==
    CASE effect_type = "outline" -> "outline"
      [] effect_type = "background" -> "background_box"
      [] effect_type = "glow" -> "glow"
      [] effect_type = "dual_glow" -> "two_tone_glow"
      [] effect_type = "text_shadow" -> "text_shadow_glow"
      [] effect_type = "word_highlight" -> "word_background_highlight"
      [] effect_type = "deep_diver" -> "deep_diver"
      [] OTHER -> "simple_text"

\* C15: a call on a style with a configuration draws with one renderer, the
\* one of its effect_type: each of outline, background, glow, dual_glow,
\* text_shadow, word_highlight, deep_diver and simple has its own, and a
\* missing or unknown effect_type is drawn as plain text and raises nothing.
C15_OneRendererPerEffectType ==
    (InWindow /\ style.json_config) =>
        /\ result.kind = "frame" =>
               /\ Len(result.canvas.layers) = 1
               /\ text_img.effect = EffectOf(effect_type_of(style))
        /\ effect_type_of(style) \notin NamedEffectTypes =>
               /\ IsFrame
               /\ text_img.effect = "simple_text"

\* C15, its case: a style with an effect_type the dispatch does not know
\* was drawn as plain text.
C15_UnknownFallsBack ==
    /\ InWindow
    /\ style.json_config
    /\ "effect_type" \in DOMAIN style.config
    /\ effect_type_of(style) \notin NamedEffectTypes \cup {"simple"}
    /\ IsFrame
    /\ text_img.effect = "simple_text"

\* the style lacks one of the colours of its full descriptor
LacksColor == style \in WithoutColor

\* C16: with a colour or an effect parameter absent from the descriptor,
\* whatever the effect type, a call inside a window raises nothing and
\* returns a frame.
C16_FrameWithoutKey == InWindow => IsFrame

\* C16, where it fails: a call inside a word, on a style that lacks a
\* colour, raises KeyError.
C16_KeyErrorForColor ==
    /\ InWindow
    /\ ~current_word_idx.none
    /\ LacksColor
    /\ result.kind = "raise"
    /\ result.exc = "KeyError"

\* C17: with a font file that cannot be loaded, every effect renderer draws
\* with the default font and gives its bitmap: no call raises for the font,
\* and every frame is drawn with the default font.
C17_DefaultFontInstead ==
    InWindow =>
        /\ result.exc \notin {"OSError", "AttributeError"}
        /\ result.kind = "frame" => text_img.font.kind # "truetype"
        /\ effect_type_of(style) \notin {"dual_glow", "text_shadow"} => IsFrame

\* C17, where it fails: the deep_diver renderer asks the default bitmap
\* font for its metrics.
C17_NoMetricsOfDefaultFont ==
    /\ InWindow
    /\ effect_type_of(style) = "deep_diver"
    /\ load_default_class = "ImageFont"
    /\ result.kind = "raise"
    /\ result.exc = "AttributeError"

\* the name asked for is not in the catalog that was read
UnknownName ==
    /\ probe.op \in {"load_style_from_json", "add_subtitle_layer"}
    /\ probe.file.state = "json"
    /\ probe.style_name \notin DOMAIN probe.file.styles

\* C18: a style name that is not in the catalog gives no style object and a
\* report that names it and lists the valid names, before anything is
\* rendered: the loader returns None and prints both, get_style raises
\* ValueError saying both, and the pipeline builds no layer with it.
C18_UnknownStyleReported ==
    /\ (UnknownName /\ probe.op = "load_style_from_json") =>
           /\ probe.out.returned = NoStyle
           /\ Len(probe.out.printed) = 2
           /\ probe.out.printed[1][2] = probe.style_name
           /\ probe.out.printed[2][2] = DOMAIN probe.file.styles
    /\ (probe.op = "get_style" /\ probe.style_name \notin DOMAIN AVAILABLE_STYLES) =>
           /\ probe.out.returned = NoStyle
           /\ probe.out.exc = "ValueError"
           /\ probe.out.message[1][2] = probe.style_name
           /\ probe.out.message[2][2] = DOMAIN AVAILABLE_STYLES
    /\ (UnknownName /\ probe.op = "add_subtitle_layer") =>
           /\ ~probe.out.built
           /\ probe.out.style = NoStyle
           /\ style # NoStyle
           /\ Len(probe.out.printed) >= 2
           /\ probe.out.printed[1][2] = probe.style_name
           /\ probe.out.printed[2][2] \in {DOMAIN probe.file.styles, available_styles}

\* C18, its case: the loader was asked for a name that the catalog it read,
\* which holds other styles, does not have.
C18_NameNotInCatalog ==
    /\ UnknownName
    /\ probe.op = "load_style_from_json"
    /\ DOMAIN probe.file.styles # {}
    /\ probe.out.returned = NoStyle

\* C19: whatever the resolution and the size of the bitmap, also when the
\* bitmap is larger than the canvas or than the safe area, a call inside a
\* window raises nothing for the geometry: the bitmap is scaled down and
\* clamped onto the canvas.
C19_NoGeometryError == InWindow => result.exc # "ValueError"

\* C19, where it fails: on a canvas no wider than its two safe margins the
\* downscale asks for a bitmap without width or height and the resize raises.
C19_ResizeToNothing ==
    /\ InWindow
    /\ safe_width < 6
    /\ result.kind = "raise"
    /\ result.exc = "ValueError"

\* the pulse was computed half a period, a quarter of a period after time 0
\* (a period is 2000 / frequency ticks)
AtHalfPeriod ==
    /\ probe.op = "create_animated_glow_pulse"
    /\ probe.time * probe.pulse_frequency = 1000

AtQuarterPeriod ==
    /\ probe.op = "create_animated_glow_pulse"
    /\ probe.time * probe.pulse_frequency = 500

C21_ReadOnce == probe.op = "truetype" => probe.again = {}

\* C21, where it fails: a call that returned a frame had its font, read by an
\* earlier call at the same size, read from the file once more.
C21_ReadAgain ==
    /\ probe.op = "truetype"
    /\ result.kind = "frame"
    /\ text_img.font.kind = "truetype"
    /\ <<style.config["typography"]["font_family"], text_img.font.size>>
           \in probe.again

SeveralAt ==
    \/ Cardinality(WindowsAt) > 1
    \/ ~active_window.none /\ Cardinality(WordsAt(Rendered)) > 1

\* C23: when several windows, or several words of the active window, contain
\* the query time, the call takes the window of the lowest index that
\* contains it and, in that window, the word of the lowest index that
\* contains it, and returns a frame without raising.
C23_FirstFoundAndFrame ==
    SeveralAt =>
        /\ ~active_window.none
        /\ active_window.val + 1 = SetMin(WindowsAt)
        /\ WordsAt(Rendered) # {} =>
               /\ ~current_word_idx.none
               /\ current_word_idx.val + 1 = SetMin(WordsAt(Rendered))
        /\ IsFrame

\* C23, where it fails: two windows contain the query time, no word of the
\* first of them does, and the dual_glow or text_shadow layer raises
\* TypeError.
C23_FirstWindowBetweenWords ==
    /\ Cardinality(WindowsAt) > 1
    /\ active_window.val + 1 = SetMin(WindowsAt)
    /\ WordsAt(Rendered) = {}
    /\ current_word_idx.none
    /\ effect_type_of(style) \in {"dual_glow", "text_shadow"}
    /\ result.exc = "TypeError"

\* C24: the windows of a layer built with a style whose layout says k words
\* per window are the chunks of k words of its word list.
C24_WindowsOfLayout ==
    Has(style.config, "layout") =>
        Chunked(words, style.config["layout"]["words_per_window"], word_windows)

\* C24, where it fails: the layout says two words per window and the layer
\* draws a window of three.
C24_ThreeWhateverTheLayout ==
    /\ Has(style.config, "layout")
    /\ style.config["layout"]["words_per_window"] = 2
    /\ result.kind = "frame"
    /\ Len(Rendered.words) = 3
    /\ Len(text_img.tokens) = 3

\* the text of a window as the text_transform of the style wants it
Transformed(text) ==
    LET transform == Get(style.config["typography"], "text_transform", "none")
    IN  CASE transform = "uppercase" -> upper(text)
          [] transform = "lowercase" -> lower(text)
          [] OTHER -> text

\* C25: whatever the effect type, the words of a frame are drawn in upper
\* case with text_transform 'uppercase', in lower case with 'lowercase', and
\* as they are otherwise.
C25_TransformHonoured ==
    (InWindow /\ result.kind = "frame") =>
        join(<<" ">>, text_img.tokens) = Transformed(Rendered.text)

\* C25, where it fails: a style other than deep_diver with text_transform
\* 'lowercase' draws the capital letter of a word as a capital.
C25_LowercaseIgnored ==
    /\ InWindow
    /\ result.kind = "frame"
    /\ style.config["typography"]["text_transform"] = "lowercase"
    /\ effect_type_of(style) # "deep_diver"
    /\ \E i \in 1..Len(text_img.tokens) : text_img.tokens[i][1] = "A"

\* size * scale >= target, for a scale num / den
Covers(size, scale, target) == size * scale.num >= target * scale.den

\* C26: for every image size and target size, the scale calculate_cover_scale
\* returns makes the image at least as wide and at least as high as the
\* target.
C26_ScaledImageCovers ==
    probe.op = "calculate_cover_scale" =>
        /\ Covers(probe.image_size[1], probe.out, probe.target_size[1])
        /\ Covers(probe.image_size[2], probe.out, probe.target_size[2])

\* C26, where it fails: an image of nearly the aspect ratio of the target is
\* scaled by the smaller of the two ratios and is less high than the target.
C26_NearlySameAspectFalls ==
    /\ probe.op = "calculate_cover_scale"
    /\ probe.of = "DynamicVideoEditor"
    /\ probe.image_size = <<768, 1360>>
    /\ probe.target_size = <<1080, 1920>>
    /\ Covers(probe.image_size[1], probe.out, probe.target_size[1])
    /\ ~Covers(probe.image_size[2], probe.out, probe.target_size[2])

\* the loop of _create_background_text is running, is over
InLoop == probe.op = "_create_background_text" /\ probe.pc = "while"
LoopOver == probe.op = "_create_background_text" /\ probe.pc = "done"

\* what holds of the loop at every moment: the font sizes tried go strictly
\* down, an iteration whose text did not fit has lowered the font size; and
\* when it is over, the text as measured fits in max_text_width or the font
\* size is 20 or less, as for the loop taken in one piece.
ShrinkingLoop ==
    probe.op = "_create_background_text" =>
        /\ \A i, j \in 1..Len(probe.sizes) : i < j => probe.sizes[i] > probe.sizes[j]
        /\ (probe.sizes # <<>> /\ ~probe.loop.text_fits) =>
               probe.loop.current_font_size < probe.sizes[Len(probe.sizes)]
        /\ probe.max_text_width
               = 1080 - 2 * 50
                 - 2 * probe.self.config["effect_parameters"]["background_padding"]["x"]
                 - (IF probe.self.config["effect_parameters"]["text_has_outline"]
                    THEN 12 ELSE 0)
        /\ probe.pc = "done" =>
               /\ \/ /\ probe.loop.text_fits
                      /\ text_width(probe.text, probe.loop.font) <= probe.max_text_width
                  \/ probe.loop.current_font_size <= 20
               /\ LET img == _create_background_text(probe.self, probe.text,
                                  probe.font_size, probe.is_highlighted)
                  IN  /\ img.paint[3] = probe.loop.current_font_size
                      /\ img.paint[4] = probe.loop.text_fits
                      /\ img.paint[5] = probe.max_text_width
                      /\ img.font = probe.loop.font

\* C27: the shrinking loop of the background box ends for every text and
\* every font size asked for, the font size goes strictly down with each
\* iteration whose text does not fit, and at the end the text as measured is
\* no wider than max_text_width (canvas width - 2 * safe_margin - 2 *
\* padding_x - outline allowance) or the font size is 20 or less.
C27_ShrinkLoopEnds == []ShrinkingLoop /\ (InLoop ~> LoopOver)

\* C27, its case: a text too wide at the size asked for was shrunk in
\* several steps until it fitted, above the floor.
C27_ShrunkToFit ==
    /\ LoopOver
    /\ Len(probe.sizes) >= 3
    /\ probe.loop.text_fits
    /\ probe.loop.current_font_size > 20
    /\ probe.loop.current_font_size < probe.sizes[1]

\* get_key gave the same key, not None, for the last two times asked
SameKey ==
    /\ probe.op = "get_key"
    /\ probe.before.asked
    /\ ~probe.key.none
    /\ ~probe.before.key.none
    /\ probe.key.key = probe.before.key.key

\* C28: two times for which get_key gives the same key, not None, give the
\* same frame, whatever the effect type, a pulsing glow included.
C28_SameKeySameFrame == SameKey => probe.frame = probe.before.frame

\* C28, where it fails: between two words a pulsing glow layer gives two
\* frames of different glow for two times of one key.
C28_PulseUnderOneKey ==
    /\ SameKey
    /\ probe.time # probe.before.time
    /\ probe.key.key[3].none
    /\ probe.frame.kind = "frame"
    /\ probe.before.frame.kind = "frame"
    /\ probe.frame.canvas.layers[1].given.glow
           # probe.before.frame.canvas.layers[1].given.glow

\* the glow styles whose pulse is enabled
PulsingGlowStyles == {GlowStyle, GlowCaptionStyle}

\* the radius and the intensity of the glow of a highlighted text: those of
\* the configuration, not those that create_animated_glow_pulse computes
SteadyGlow ==
    IF style = GlowStyle
    THEN <<Get(style.config["effect_parameters"], "glow_radius", 15),
           Get(style.config["effect_parameters"], "glow_intensity_highlighted", 1200)>>
    ELSE <<style.config["glow"]["radius"],
           Min(1000, (style.config["glow"]["intensity"] * 13) \div 10)>>

\* the window and the word of the call whose frame was kept
KeptWindow == __call__(this, kept.time).active_window
KeptWord == __call__(this, kept.time).current_word_idx

\* C29: for a glow style with pulse enabled, while a word of the active
\* window is spoken the text is drawn with the glow of the configuration and
\* not with the pulse, so that two times of one window at which a word is
\* highlighted give the same frame.
C29_SteadyWhileSpoken ==
    (style \in PulsingGlowStyles /\ result.kind = "frame" /\ ~current_word_idx.none) =>
        /\ text_img.glow = SteadyGlow
        /\ (/\ kept.set
            /\ kept.result.kind = "frame"
            /\ KeptWindow = active_window
            /\ ~KeptWord.none) => result = kept.result

\* C29, its case: a pulsing glow style drew one window at two times, with
\* one word highlighted at the first and another at the second.
C29_TwoSpokenWords ==
    /\ style \in PulsingGlowStyles
    /\ kept.set
    /\ kept.result.kind = "frame"
    /\ result.kind = "frame"
    /\ time # kept.time
    /\ KeptWindow = active_window
    /\ ~KeptWord.none
    /\ ~current_word_idx.none
    /\ KeptWord # current_word_idx

\* C29, the other side: between two words the pulse draws, and the frames of
\* two times of one window differ.
C29_PulseBetweenWords ==
    /\ style \in PulsingGlowStyles
    /\ kept.set
    /\ kept.result.kind = "frame"
    /\ result.kind = "frame"
    /\ KeptWindow = active_window
    /\ KeptWord.none
    /\ current_word_idx.none
    /\ result # kept.result
    /\ text_img.glow # SteadyGlow

\* the effects that draw the window word by word
TokenEffects == {"word_highlight", "dual_glow", "text_shadow"}

\* the words of the rendered window as the effect should draw them
WindowTokens ==
    [i \in 1..Len(Rendered.words) |->
        transform_upper(style.config["typography"], Rendered.words[i].word)]

\* C30: for word_highlight, dual_glow and text_shadow, the tokens handed to
\* the effect are the words of the active window, as many and in the same
\* order, whatever the word strings: the highlighted index designates the
\* same word in both.
C30_TokensAreWords ==
    (InWindow /\ effect_type_of(style) \in TokenEffects /\ result.kind = "frame") =>
        text_img.tokens = WindowTokens

\* C30, where it fails: a word is highlighted and the effect got more or
\* fewer tokens than the window has words.
C30_OtherTokenCount ==
    /\ InWindow
    /\ effect_type_of(style) \in TokenEffects
    /\ result.kind = "frame"
    /\ ~current_word_idx.none
    /\ Len(text_img.tokens) # Len(Rendered.words)

====
